---- MODULE Spec2Model ----
(***************************************************************************)
(* A model of the voice engine of Archon (src/src/archon/voice): the       *)
(* activation layer (activation.py), the microphone capture and the        *)
(* speaker playback queue (audio_io.py), the live session handle           *)
(* (gemini_live_client.py), the audio preprocessor (audio_processing.py)   *)
(* and the orchestrator (voice_session.py).                                *)
(*                                                                         *)
(* The specifications share the variables:                                 *)
(*   SpecAct         one activator object driven through its interface     *)
(*   SpecSpeaker     one SpeakerPlayback driven through its interface      *)
(*   SpecCapture     one MicCapture, its stream and its consumer           *)
(*   SpecLive        one LiveSession, its callers and the remote           *)
(*   Spec            a whole VoiceSession                                  *)
(*   SpecInterrupts  a VoiceSession with the interruption signals marked   *)
(*   SpecBargeIn     a VoiceSession with the loud frames counted           *)
(*   SpecStartup     the start of a VoiceSession, with its failures        *)
(*   SpecFailures    a VoiceSession whose remote fails in mid-session      *)
(*   SpecHighpass    the high-pass stage of an AudioPreprocessor           *)
(*   SpecGate        its noise gate                                        *)
(*   SpecAgc         its gain control on one buffer                        *)
(*   SpecAgcFeed     its gain control on any sequence of buffers           *)
(*   SpecProcess     AudioPreprocessor.process with the denoise stage      *)
(*                                                                         *)
(* A PCM chunk is a sequence of int16 samples.  Scores of the wake-word    *)
(* scorer are in tenths (5 is 0.5).                                        *)
(***************************************************************************)
EXTENDS Integers, Sequences, FiniteSets, TLC

VARIABLES
    activation_mode,     \* VoiceSession.activation_mode
    actKind,             \* class of the activator object ("NONE" before build_activator)
    actPc,               \* activator life cycle: "built", "started", "stopped", "failed"
    events,              \* _BaseActivator._events (asyncio.Queue)
    loopReady,           \* callbacks handed to the loop by call_soon_threadsafe, not yet run
    holding,             \* PTTActivator._holding
    listening_for_wake,  \* WakeWordActivator._listening_for_wake
    active_turn,         \* WakeWordActivator._active_turn
    silence_streak,      \* WakeWordActivator._silence_streak
    audio_queue,         \* WakeWordActivator._audio_queue
    emittedLog,          \* history: events in the order the activator produced them
    handledLog,          \* history: events in the order a consumer took them
    lastOp,              \* history: the last activator input and what it did
    quietRun,            \* history: quiet buffers in a row processed in the current turn
    running,             \* VoiceSession._running
    sessPc,              \* run(): "none", "init", "opening" (capture open), "connecting",
                         \* "live", "crashed", "closing" (waiting for the drain task),
                         \* "unwinding" (the same, with an exception on its way),
                         \* "returned", "raised" (run() left by an exception)
    micPc,               \* _mic_forward_loop: "idle", "run", "done", "raised"
    recvPc,              \* _receive_loop: "idle", "run", "done", "raised"
    slashPc,             \* _watch_slash_commands: "idle", "run", "done"
    forwarding,          \* local of _mic_forward_loop
    vizState,            \* WaveformVisualizer._state
    barge_in_streak,     \* local of _mic_forward_loop
    interrupted,         \* LiveSession._interrupted (asyncio.Event)
    spkPc,               \* SpeakerPlayback: "none", "open", "failed", "closing", "closed"
    drainPc,             \* _drain_loop: "idle", "run", "done"
    spkQ,                \* SpeakerPlayback._q
    written,             \* history: chunks written to the OutputStream, in order
    nextBuf,             \* history: id of the next chunk handed to play()
    unfinished,          \* SpeakerPlayback._q._unfinished_tasks
    joinPc,              \* a caller of drain(): "idle", "waiting", "woken", "returned"
    joinSnap,            \* history: nextBuf when drain() was called
    discarded,           \* history: ids of the chunks clear() took off the queue
    capPc,               \* MicCapture: "none", "built", "open", "failed", "closed"
    capReady,            \* put_nowait calls handed to the loop by _callback, not yet run
    capQ,                \* MicCapture._q (0 is the None sentinel)
    capIter,             \* the consumer of the capture: "run", "stopped"
    delivered,           \* history: chunks the hardware handed to _callback, in order
    yielded,             \* history: chunks __anext__ returned, in order
    genPc,               \* a receive() generator: "none", "idle", "run", "ended"
    curMsg,              \* receive(): the server message being processed
    genParts,            \* receive(): the parts still to be yielded for curMsg
    msgsRead,            \* history: server messages receive() has read
    msgYields,           \* history: the parts yielded for curMsg, in order
    finalSeen,           \* history: this receive() sequence yielded a final part
    afterFinal,          \* history: this sequence yielded a part after a final part
    sentLog,             \* history: send_audio calls (by number) that were transmitted
    sendFlags,           \* history: the interrupt flag found by each send_audio call
    curReply,            \* the reply the remote is sending (1, 2, ...)
    bargedReplies,       \* history: replies for which interrupt() and then clear() ran
    cutReplies,          \* history: replies whose end was a server-side interruption
    lastMic,             \* history: what the last iteration of the mic loop did
    failure,             \* the exception on its way out of _main_loop ("none" without)
    hpf_z1,              \* AudioPreprocessor._hpf_z1 (tenths of an amplitude unit)
    hpf_z2,              \* AudioPreprocessor._hpf_z2
    agc_gain,            \* AudioPreprocessor._agc_gain (thousandths)
    enable_spectral,     \* AudioPreprocessor._enable_spectral
    nr_module,           \* AudioPreprocessor._nr_module: "none" or "noisereduce"
    nrInstalled,         \* the environment: noisereduce can be imported
    signal,              \* the input a conditioner is run on (for process(): the chunk
                         \* of the last call)
    fed,                 \* history: how much of it has been processed (samples or calls)
    condOut,             \* history: the output (of all calls, or of the last one)
    condStart,           \* history: the delay registers before the first call
    importTries          \* history: attempts to import noisereduce

condVars == <<hpf_z1, hpf_z2, agc_gain, enable_spectral, nr_module, nrInstalled, signal,
              fed, condOut, condStart, importTries>>
capVars == <<capPc, capReady, capQ, capIter, delivered, yielded>>
\* the objects a session owns that are also run on their own
liveVars == <<genPc, curMsg, genParts, msgsRead, msgYields, finalSeen, afterFinal, sentLog,
             sendFlags>>
unitVars == <<capVars, liveVars>>
actVars == <<actKind, actPc, events, loopReady, holding, listening_for_wake,
             active_turn, silence_streak, audio_queue, emittedLog, handledLog,
             lastOp, quietRun>>
sessVars == <<activation_mode, running, sessPc, micPc, recvPc, slashPc, forwarding, vizState,
              barge_in_streak, interrupted, curReply, bargedReplies, cutReplies, lastMic,
              failure, condVars, unitVars>>
spkVars == <<spkPc, drainPc, spkQ, written, nextBuf, unfinished, joinPc, joinSnap,
            discarded>>
vars == <<actVars, sessVars, spkVars>>

----------------------------------------------------------------------------
(* Bounds of the model *)

\* events an activator may produce in one behaviour
MaxEmitted == 4
\* chunks waiting in WakeWordActivator._audio_queue
MaxAudioQ == 2
\* chunks handed to SpeakerPlayback.play() in one behaviour
MaxBufs == 4
\* chunks the hardware hands to MicCapture._callback in one behaviour
MaxCaptured == 4
\* server messages one LiveSession reads in one behaviour
MaxMsgs == 2
\* parts in one server message
MaxParts == 1
\* calls of LiveSession.send_audio in one behaviour
MaxSent == 2
\* replies the remote sends in one session
MaxReplies == 1
\* audio parts the receive loop hands to play() in one session
MaxSessionBufs == 2
\* events the activator may produce in one session
MaxSessionEvents == 2

----------------------------------------------------------------------------
(* Program constants *)

\* ARCHON_WAKE_THRESHOLD default "0.5", in tenths
WAKE_THRESHOLD == 5
SILENCE_FRAMES_TO_END == 15
BARGE_IN_FRAMES_REQUIRED == 4

LISTENING_START == "LISTENING_START"
LISTENING_END == "LISTENING_END"
INTERRUPTED == "INTERRUPTED"
EXIT == "EXIT"
ActivationEvent == {LISTENING_START, LISTENING_END, INTERRUPTED, EXIT}

VAD == "VAD"
PTT == "PTT"
WAKE_WORD == "WAKE_WORD"
VoiceActivation == {VAD, PTT, WAKE_WORD}

PTT_KEY == "space"
Keys == {PTT_KEY, "a"}

\* scorer outputs tried: 0.0, 0.4, 0.5, 0.9
Scores == {0, 4, 5, 9}

\* chunks pushed to the wake-word activator: rms 0.01999 (quiet), 0.02002 (loud),
\* and two-sample chunks of rms 0.01998 (quiet) and 0.02000 (loud)
WakeChunks == {<<655>>, <<656>>, <<926, 0>>, <<927, 0>>}

\* microphone chunks: rms 0.03998 (quiet), 0.04001 (loud), and two-sample chunks
\* of rms 0.03999 (quiet) and 0.04001 (loud)
MicChunks == {<<1310>>, <<1311>>, <<1853, 0>>, <<1854, 0>>}

----------------------------------------------------------------------------
(* Pure helpers *)

RECURSIVE SumSq(_)
SumSq(s) == IF s = << >> THEN 0 ELSE Head(s) * Head(s) + SumSq(Tail(s))

\* activation.py 336-339: rms = sqrt(mean((x / 32768)^2)) < ENERGY_THRESHOLD (0.02).
\* (0.02 * 32768)^2 = 429496 + 456/625, so the test is mean(x^2) < 429496 + 456/625.
RmsBelowEnergyThreshold(chunk) ==
    625 * (SumSq(chunk) - 429496 * Len(chunk)) < 456 * Len(chunk)

\* audio_io.py compute_rms and voice_session.py 229: min(sqrt(mean(x^2)) / 32768, 1.0)
\* > BARGE_IN_RMS_THRESHOLD (0.04).  (0.04 * 32768)^2 = 1717986 + 574/625.
RmsAboveBargeInThreshold(chunk) ==
    /\ Len(chunk) >= 1
    /\ SumSq(chunk) > 1717986 * Len(chunk) + (574 * Len(chunk)) \div 625

\* what "quiet" means for the history variable quietRun: rms below 0.02 of full
\* scale, i.e. 2500 * sum(x^2) < 32768^2 * len, divided by 4
QuietChunk(chunk) == 625 * SumSq(chunk) < 268435456 * Len(chunk)

Count(s, x) == Cardinality({i \in 1..Len(s) : s[i] = x})

\* lastOp: the input (op, key, chunk, score), the state it met (pre: _holding or
\* _listening_for_wake; streak: _silence_streak), n, the number of events the
\* activator had produced before it, and calls, what an iteration of _monitor_loop
\* called, in order: "predict" and "reset" of the scorer, "emit" of the activator
NoOp == [op |-> "none", key |-> "", chunk |-> << >>, score |-> -1, pre |-> FALSE,
         streak |-> 0, n |-> 0, calls |-> << >>]

----------------------------------------------------------------------------
(* activation.py: _BaseActivator *)

\* a variant of PutNowait: a queue of size one that drops what does not fit
PutNowaitLossy(q, x) == IF q = << >> THEN <<x>> ELSE q

\* asyncio.Queue.put_nowait on the unbounded queue of _BaseActivator.__init__
PutNowait(q, x) == Append(q, x)

\* _BaseActivator._emit
Emit(q, event) == PutNowait(q, event)

\* a variant of CallSoonThreadsafe: the callback is put in front of the ready list
CallSoonThreadsafeFront(ready, event) == <<event>> \o ready

\* loop.call_soon_threadsafe(self._events.put_nowait, event): the callback joins the
\* loop's ready list behind the ones already scheduled
CallSoonThreadsafe(ready, event) == Append(ready, event)

\* the event loop runs the oldest scheduled callback: self._events.put_nowait(event)
LoopRunReady ==
    /\ loopReady # << >>
    /\ events' = PutNowait(events, Head(loopReady))
    /\ loopReady' = Tail(loopReady)
    /\ UNCHANGED <<actKind, actPc, holding, listening_for_wake, active_turn,
                   silence_streak, audio_queue, emittedLog, handledLog, lastOp,
                   quietRun>>

\* _BaseActivator.next_event / _events.get_nowait by a consumer
NextEvent ==
    /\ events # << >>
    /\ handledLog' = Append(handledLog, Head(events))
    /\ events' = Tail(events)
    /\ UNCHANGED <<actKind, actPc, loopReady, holding, listening_for_wake, active_turn,
                   silence_streak, audio_queue, emittedLog, lastOp, quietRun>>

----------------------------------------------------------------------------
(* activation.py: VADActivator *)

\* VADActivator.start
VADStart ==
    /\ events' = Emit(events, LISTENING_START)
    /\ emittedLog' = Append(emittedLog, LISTENING_START)

\* a variant of PlaybackInterruptedEvent: the wrong member of the enum
PlaybackInterruptedEventStart == LISTENING_START

\* the event signal_playback_interrupted emits
PlaybackInterruptedEvent == INTERRUPTED

\* VADActivator.signal_playback_interrupted
SignalPlaybackInterrupted ==
    /\ actKind = VAD
    /\ Len(emittedLog) < MaxEmitted
    /\ events' = Emit(events, PlaybackInterruptedEvent)
    /\ emittedLog' = Append(emittedLog, PlaybackInterruptedEvent)
    /\ lastOp' = [NoOp EXCEPT !.op = "signal", !.n = Len(emittedLog)]
    /\ UNCHANGED <<actKind, actPc, loopReady, holding, listening_for_wake, active_turn,
                   silence_streak, audio_queue, handledLog, quietRun>>

----------------------------------------------------------------------------
(* activation.py: PTTActivator *)

\* a variant of PressStarts: the holding flag is not consulted
PressStartsAlways(key, held) == key = PTT_KEY

\* the condition of _on_press
PressStarts(key, held) == key = PTT_KEY /\ ~held

\* the condition of _on_release
ReleaseEnds(key, held) == key = PTT_KEY /\ held

\* PTTActivator._on_press, on the listener thread (self._loop is set by start())
OnPressBody(key) ==
    /\ actKind = PTT
    /\ actPc = "started"
    /\ IF PressStarts(key, holding)
         THEN /\ holding' = TRUE
              /\ loopReady' = CallSoonThreadsafe(loopReady, LISTENING_START)
              /\ emittedLog' = Append(emittedLog, LISTENING_START)
         ELSE UNCHANGED <<holding, loopReady, emittedLog>>
    /\ UNCHANGED <<actKind, actPc, events, listening_for_wake, active_turn,
                   silence_streak, audio_queue, handledLog, quietRun>>

\* PTTActivator._on_release, on the listener thread
OnReleaseBody(key) ==
    /\ actKind = PTT
    /\ actPc = "started"
    /\ IF ReleaseEnds(key, holding)
         THEN /\ holding' = FALSE
              /\ loopReady' = CallSoonThreadsafe(loopReady, LISTENING_END)
              /\ emittedLog' = Append(emittedLog, LISTENING_END)
         ELSE UNCHANGED <<holding, loopReady, emittedLog>>
    /\ UNCHANGED <<actKind, actPc, events, listening_for_wake, active_turn,
                   silence_streak, audio_queue, handledLog, quietRun>>

\* _on_press as SpecAct runs it: the call is recorded in lastOp
OnPress(key) ==
    /\ Len(emittedLog) < MaxEmitted
    /\ OnPressBody(key)
    /\ lastOp' = [NoOp EXCEPT !.op = "press", !.key = key, !.pre = holding,
                    !.n = Len(emittedLog)]

\* _on_release as SpecAct runs it: the call is recorded in lastOp
OnRelease(key) ==
    /\ Len(emittedLog) < MaxEmitted
    /\ OnReleaseBody(key)
    /\ lastOp' = [NoOp EXCEPT !.op = "release", !.key = key, !.pre = holding,
                    !.n = Len(emittedLog)]

----------------------------------------------------------------------------
(* activation.py: WakeWordActivator *)

\* WakeWordActivator.push_audio
PushAudio(chunk) ==
    /\ actKind = WAKE_WORD
    /\ Len(audio_queue) < MaxAudioQ
    /\ Len(emittedLog) < MaxEmitted
    /\ audio_queue' = Append(audio_queue, chunk)
    /\ lastOp' = [NoOp EXCEPT !.op = "push", !.chunk = chunk, !.n = Len(emittedLog)]
    /\ UNCHANGED <<actKind, actPc, events, loopReady, holding, listening_for_wake,
                   active_turn, silence_streak, emittedLog, handledLog, quietRun>>

\* a variant of WakeDetected: the comparison made strict
WakeDetectedStrict(score) == score > WAKE_THRESHOLD

\* _monitor_loop 320: score >= self._threshold
WakeDetected(score) == score >= WAKE_THRESHOLD

\* a variant of DetectFlags: the waiting flag left set
DetectFlagsKeepWaiting ==
    [listening_for_wake |-> TRUE, active_turn |-> TRUE, silence_streak |-> 0]

\* _monitor_loop 327-329: the fields a detection sets
DetectFlags == [listening_for_wake |-> FALSE, active_turn |-> TRUE, silence_streak |-> 0]

\* a variant of EndFlags: the waiting flag is not set again
EndFlagsNotWaiting ==
    [listening_for_wake |-> FALSE, active_turn |-> FALSE, silence_streak |-> 0]

\* _monitor_loop 346-348: the fields the end of a turn sets
EndFlags == [listening_for_wake |-> TRUE, active_turn |-> FALSE, silence_streak |-> 0]

\* a variant of StreakAfter: a loud buffer does not reset the streak
StreakAfterNoReset(streak, quiet) == IF quiet THEN streak + 1 ELSE streak

\* _monitor_loop 339-351: the streak after one buffer of an active turn, before the
\* end-of-turn test
StreakAfter(streak, quiet) == IF quiet THEN streak + 1 ELSE 0

\* a variant of TurnEnds: the comparison made strict
TurnEndsLate(streak, quiet) == quiet /\ streak > SILENCE_FRAMES_TO_END

\* _monitor_loop 341: self._silence_streak >= self.SILENCE_FRAMES_TO_END
TurnEnds(streak, quiet) == quiet /\ streak >= SILENCE_FRAMES_TO_END

\* a variant of DetectCalls: the event is emitted before the scorer is reset
DetectCallsEmitFirst == <<"emit", "reset">>

\* _monitor_loop 331-332: what a detection calls after setting the flags
DetectCalls == <<"reset", "emit">>

\* _monitor_loop 317-332: the calls of an iteration in the waiting state
WaitingCalls(score) == <<"predict">> \o (IF WakeDetected(score) THEN DetectCalls ELSE << >>)

\* _monitor_loop 334-351: the calls of an iteration in an active turn
ActiveCalls(ends) == IF ends THEN <<"emit">> ELSE << >>

\* a variant of MonitorTaskAlive: stop() leaves the task running
MonitorTaskSurvivesStop == actPc \in {"started", "stopped"}

\* the task start() creates (230) runs until stop() cancels and awaits it (234-239)
MonitorTaskAlive == actPc = "started"

\* one iteration of _monitor_loop: take a chunk, then the waiting branch (315-332)
\* with the score the scorer returns, or the active-turn branch (334-351)
MonitorLoopStep(score) ==
    /\ actKind = WAKE_WORD
    /\ MonitorTaskAlive
    /\ audio_queue # << >>
    /\ audio_queue' = Tail(audio_queue)
    /\ LET chunk == Head(audio_queue)
           quiet == RmsBelowEnergyThreshold(chunk)
           after == StreakAfter(silence_streak, quiet)
       IN IF listening_for_wake
            THEN /\ IF WakeDetected(score)
                      THEN /\ listening_for_wake' = DetectFlags.listening_for_wake
                           /\ active_turn' = DetectFlags.active_turn
                           /\ silence_streak' = DetectFlags.silence_streak
                           /\ events' = Emit(events, LISTENING_START)
                           /\ emittedLog' = Append(emittedLog, LISTENING_START)
                           /\ quietRun' = 0
                      ELSE UNCHANGED <<listening_for_wake, active_turn, silence_streak,
                                       events, emittedLog, quietRun>>
                 /\ lastOp' = [NoOp EXCEPT !.op = "monitor", !.chunk = chunk,
                                 !.score = score, !.pre = TRUE,
                                 !.streak = silence_streak,
                                 !.n = Len(emittedLog),
                                 !.calls = WaitingCalls(score)]
            ELSE /\ IF TurnEnds(after, quiet)
                      THEN /\ listening_for_wake' = EndFlags.listening_for_wake
                           /\ active_turn' = EndFlags.active_turn
                           /\ silence_streak' = EndFlags.silence_streak
                           /\ events' = Emit(events, LISTENING_END)
                           /\ emittedLog' = Append(emittedLog, LISTENING_END)
                      ELSE /\ silence_streak' = after
                           /\ UNCHANGED <<listening_for_wake, active_turn, events,
                                          emittedLog>>
                 /\ quietRun' = IF QuietChunk(chunk) THEN quietRun + 1 ELSE 0
                 /\ lastOp' = [NoOp EXCEPT !.op = "monitor", !.chunk = chunk,
                                 !.pre = FALSE, !.streak = silence_streak,
                                 !.n = Len(emittedLog),
                                 !.calls = ActiveCalls(TurnEnds(after, quiet))]
    /\ UNCHANGED <<actKind, actPc, loopReady, holding, handledLog>>

----------------------------------------------------------------------------
(* activation.py: start() and stop() of the three classes *)

\* VADActivator.start / PTTActivator.start / WakeWordActivator.start, with the
\* listener or the scorer model available
ActivatorStartBody ==
    /\ actPc' = "started"
    /\ IF actKind = VAD
         THEN VADStart
         ELSE UNCHANGED <<events, emittedLog>>

ActivatorStart ==
    /\ actPc = "built"
    /\ ActivatorStartBody
    /\ lastOp' = [NoOp EXCEPT !.op = "start", !.n = Len(emittedLog)]
    /\ UNCHANGED <<actKind, loopReady, holding, listening_for_wake, active_turn,
                   silence_streak, audio_queue, handledLog, quietRun>>

\* _BaseActivator.stop / PTTActivator.stop / WakeWordActivator.stop
ActivatorStop ==
    /\ actPc = "started"
    /\ actPc' = "stopped"
    /\ UNCHANGED <<actKind, events, loopReady, holding, listening_for_wake,
                   active_turn, silence_streak, audio_queue, emittedLog, handledLog,
                   lastOp, quietRun>>

\* stop() of an activator that start() was never called on: _BaseActivator.stop is a
\* pass, PTTActivator.stop finds _listener None (143), WakeWordActivator.stop finds
\* _monitor_task None (234)
ActivatorStopUnstarted ==
    /\ actPc = "built"
    /\ lastOp' = [NoOp EXCEPT !.op = "stop", !.n = Len(emittedLog)]
    /\ UNCHANGED <<actKind, actPc, events, loopReady, holding, listening_for_wake,
                   active_turn, silence_streak, audio_queue, emittedLog, handledLog,
                   quietRun>>

\* build_activator(mode) and the constructors of the three classes
BuildActivator(mode) ==
    /\ actKind = mode
    /\ actPc = "built"
    /\ events = << >>
    /\ loopReady = << >>
    /\ holding = FALSE
    /\ listening_for_wake = TRUE
    /\ active_turn = FALSE
    /\ silence_streak = 0
    /\ audio_queue = << >>
    /\ emittedLog = << >>
    /\ handledLog = << >>
    /\ lastOp = NoOp
    /\ quietRun = 0

----------------------------------------------------------------------------
(* States of the parts a specification does not run *)

\* no AudioPreprocessor is run: one as __init__ (audio_processing.py 68-85) leaves
\* it (gain 1.0), no input
NoConditioner ==
    /\ hpf_z1 = 0
    /\ hpf_z2 = 0
    /\ agc_gain = 1000
    /\ enable_spectral = FALSE
    /\ nr_module = "none"
    /\ nrInstalled = FALSE
    /\ signal = << >>
    /\ fed = 0
    /\ condOut = << >>
    /\ condStart = <<0, 0>>
    /\ importTries = 0

\* lastMic: the iteration ran AudioPreprocessor.process on its chunk (processed)
\* and handed the result to send_audio (passed)
NoMic == [processed |-> FALSE, passed |-> FALSE, run |-> 0]

\* MicCapture.__init__: an empty queue, no stream
NewCapture ==
    /\ capReady = << >>
    /\ capQ = << >>
    /\ capIter = "run"
    /\ delivered = << >>
    /\ yielded = << >>

NoCapture ==
    /\ capPc = "none"
    /\ NewCapture

\* no server message read yet (an empty message that ends nothing)
NoMsg == [interrupted |-> FALSE, parts |-> << >>, turn_complete |-> FALSE]

\* LiveSession.__init__: nothing sent, nothing received
NewLive ==
    /\ curMsg = NoMsg
    /\ genParts = << >>
    /\ msgsRead = 0
    /\ msgYields = << >>
    /\ finalSeen = FALSE
    /\ afterFinal = FALSE
    /\ sentLog = << >>
    /\ sendFlags = << >>

NoLive ==
    /\ genPc = "none"
    /\ NewLive

NoUnits == NoCapture /\ NoLive

NoSession ==
    /\ NoUnits
    /\ activation_mode = actKind
    /\ running = FALSE
    /\ sessPc = "none"
    /\ micPc = "idle"
    /\ recvPc = "idle"
    /\ slashPc = "idle"
    /\ forwarding = FALSE
    /\ vizState = "IDLE"
    /\ barge_in_streak = 0
    /\ interrupted = FALSE
    /\ curReply = 1
    /\ bargedReplies = {}
    /\ cutReplies = {}
    /\ lastMic = NoMic
    /\ failure = "none"
    /\ NoConditioner

\* SpeakerPlayback.__init__: an empty queue, nothing played
NewSpeaker ==
    /\ drainPc = "idle"
    /\ spkQ = << >>
    /\ written = << >>
    /\ nextBuf = 1
    /\ unfinished = 0
    /\ joinPc = "idle"
    /\ joinSnap = 1
    /\ discarded = {}

NoSpeaker ==
    /\ spkPc = "none"
    /\ NewSpeaker

----------------------------------------------------------------------------
(* SpecAct: one activator, built by build_activator, driven by its callers *)

InitAct ==
    /\ \E mode \in VoiceActivation : BuildActivator(mode)
    /\ NoSession
    /\ NoSpeaker

NextAct ==
    \/ ActivatorStart /\ UNCHANGED <<sessVars, spkVars>>
    \/ ActivatorStop /\ UNCHANGED <<sessVars, spkVars>>
    \/ ActivatorStopUnstarted /\ UNCHANGED <<sessVars, spkVars>>
    \/ SignalPlaybackInterrupted /\ UNCHANGED <<sessVars, spkVars>>
    \/ \E key \in Keys : OnPress(key) /\ UNCHANGED <<sessVars, spkVars>>
    \/ \E key \in Keys : OnRelease(key) /\ UNCHANGED <<sessVars, spkVars>>
    \/ LoopRunReady /\ UNCHANGED <<sessVars, spkVars>>
    \/ \E chunk \in WakeChunks : PushAudio(chunk) /\ UNCHANGED <<sessVars, spkVars>>
    \/ \E score \in Scores : MonitorLoopStep(score) /\ UNCHANGED <<sessVars, spkVars>>
    \/ NextEvent /\ UNCHANGED <<sessVars, spkVars>>

SpecAct == InitAct /\ [][NextAct]_vars

----------------------------------------------------------------------------
(* audio_io.py: SpeakerPlayback.  A chunk is [id, reply]: id numbers the calls of
   play() from 1, reply is the reply the audio belongs to (0 outside a session). *)

\* the None sentinel __aexit__ puts on the queue
NoneChunk == [id |-> 0, reply |-> 0]

\* SpeakerPlayback.play: await self._q.put(pcm_bytes), the queue is unbounded
Play(q, chunk) == Append(q, chunk)

\* the put of play() and of __aexit__ counts one unfinished task
PutCount(n) == n + 1

\* a variant of Clear: the oldest chunk stays on the queue
ClearKeepOldest(q) == IF q = << >> THEN << >> ELSE <<Head(q)>>

\* SpeakerPlayback.clear: get_nowait and task_done until the queue is empty
Clear(q) == << >>

\* a variant of ClearDone: clear() without its task_done calls
ClearDoneNone(n, q) == n

\* SpeakerPlayback.clear: one task_done for each chunk taken off the queue q
ClearDone(n, q) == n - Len(q)

\* self._q.task_done() in _drain_loop
TaskDone(n) == n - 1

\* a variant of QueueGet: the newest chunk is taken
QueueGetNewest(q) == q[Len(q)]

\* self._q.get() in _drain_loop: the oldest chunk
QueueGet(q) == Head(q)

\* the ids of the chunks on a queue
Ids(q) == {q[i].id : i \in 1..Len(q)}

\* SpeakerPlayback.drain, the wait of self._q.join(): the task_done that brings the
\* count to 0 wakes the waiting caller; n is the count after the task_done
JoinAfter(pc, n) == IF pc = "waiting" /\ n = 0 THEN "woken" ELSE pc

\* SpeakerPlayback.__aenter__: the stream is started and the drain task created
SpkOpen ==
    /\ spkPc = "built"
    /\ spkPc' = "open"
    /\ drainPc' = "run"
    /\ UNCHANGED <<spkQ, written, nextBuf, unfinished, joinPc, joinSnap, discarded>>

\* SpeakerPlayback.play called with the next chunk
SpkPlay ==
    /\ spkPc \in {"open", "closing"}
    /\ nextBuf <= MaxBufs
    /\ spkQ' = Play(spkQ, [id |-> nextBuf, reply |-> 0])
    /\ unfinished' = PutCount(unfinished)
    /\ nextBuf' = nextBuf + 1
    /\ UNCHANGED <<spkPc, drainPc, written, joinPc, joinSnap, discarded>>

\* SpeakerPlayback.clear
SpkClear ==
    /\ spkPc \in {"open", "closing"}
    /\ spkQ' = Clear(spkQ)
    /\ unfinished' = ClearDone(unfinished, spkQ)
    /\ joinPc' = JoinAfter(joinPc, unfinished')
    /\ discarded' = discarded \cup (Ids(spkQ) \ Ids(spkQ'))
    /\ UNCHANGED <<spkPc, drainPc, written, nextBuf, joinSnap>>

\* one iteration of _drain_loop: get a chunk, stop at the sentinel, else write it
\* to the stream (stream.write blocks the loop, so the iteration is one step)
SpkDrainStep ==
    /\ drainPc = "run"
    /\ spkQ # << >>
    /\ spkQ' = Tail(spkQ)
    /\ IF QueueGet(spkQ) = NoneChunk
         THEN /\ drainPc' = "done"
              /\ UNCHANGED written
         ELSE /\ written' = Append(written, QueueGet(spkQ))
              /\ UNCHANGED drainPc
    /\ unfinished' = TaskDone(unfinished)
    /\ joinPc' = JoinAfter(joinPc, unfinished')
    /\ UNCHANGED <<spkPc, nextBuf, joinSnap, discarded>>

\* SpeakerPlayback.drain is called: self._q.join() returns at once when nothing is
\* unfinished, else the caller waits
SpkDrainCall ==
    /\ spkPc \in {"open", "closing"}
    /\ joinPc \in {"idle", "returned"}
    /\ joinPc' = IF unfinished = 0 THEN "returned" ELSE "waiting"
    /\ joinSnap' = nextBuf
    /\ UNCHANGED <<spkPc, drainPc, spkQ, written, nextBuf, unfinished, discarded>>

\* SpeakerPlayback.drain returns: the woken caller runs again
SpkDrainReturn ==
    /\ joinPc = "woken"
    /\ joinPc' = "returned"
    /\ UNCHANGED <<spkPc, drainPc, spkQ, written, nextBuf, unfinished, joinSnap,
                   discarded>>

\* SpeakerPlayback.__aexit__, first line: await self._q.put(None)
SpkCloseBegin ==
    /\ spkPc = "open"
    /\ spkPc' = "closing"
    /\ spkQ' = Play(spkQ, NoneChunk)
    /\ unfinished' = PutCount(unfinished)
    /\ UNCHANGED <<drainPc, written, nextBuf, joinPc, joinSnap, discarded>>

\* SpeakerPlayback.__aexit__, the rest: await self._task returned, stream closed
SpkCloseEnd ==
    /\ spkPc = "closing"
    /\ drainPc = "done"
    /\ spkPc' = "closed"
    /\ UNCHANGED <<drainPc, spkQ, written, nextBuf, unfinished, joinPc, joinSnap,
                   discarded>>

NoActivator ==
    /\ actKind = "NONE"
    /\ actPc = "none"
    /\ events = << >>
    /\ loopReady = << >>
    /\ holding = FALSE
    /\ listening_for_wake = TRUE
    /\ active_turn = FALSE
    /\ silence_streak = 0
    /\ audio_queue = << >>
    /\ emittedLog = << >>
    /\ handledLog = << >>
    /\ lastOp = NoOp
    /\ quietRun = 0

----------------------------------------------------------------------------
(* SpecSpeaker: one SpeakerPlayback, driven by its callers *)

InitSpeaker ==
    /\ spkPc = "built"
    /\ NewSpeaker
    /\ NoActivator
    /\ NoUnits
    /\ activation_mode = VAD
    /\ running = FALSE
    /\ sessPc = "none"
    /\ micPc = "idle"
    /\ recvPc = "idle"
    /\ slashPc = "idle"
    /\ forwarding = FALSE
    /\ vizState = "IDLE"
    /\ barge_in_streak = 0
    /\ interrupted = FALSE
    /\ curReply = 1
    /\ bargedReplies = {}
    /\ cutReplies = {}
    /\ lastMic = NoMic
    /\ failure = "none"
    /\ NoConditioner

NextSpeaker ==
    \/ SpkOpen /\ UNCHANGED <<actVars, sessVars>>
    \/ SpkPlay /\ UNCHANGED <<actVars, sessVars>>
    \/ SpkClear /\ UNCHANGED <<actVars, sessVars>>
    \/ SpkDrainStep /\ UNCHANGED <<actVars, sessVars>>
    \/ SpkDrainCall /\ UNCHANGED <<actVars, sessVars>>
    \/ SpkDrainReturn /\ UNCHANGED <<actVars, sessVars>>
    \/ SpkCloseBegin /\ UNCHANGED <<actVars, sessVars>>
    \/ SpkCloseEnd /\ UNCHANGED <<actVars, sessVars>>

SpecSpeaker == InitSpeaker /\ [][NextSpeaker]_vars

\* C10: the chunks written to the device are chunks play() was given, in the order
\* of the play() calls, none of them twice (ids number the play() calls, so the ids
\* written strictly increase).
C10_WrittenInEnqueueOrder ==
    /\ \A i \in 1..Len(written) : written[i].id \in 1..(nextBuf - 1)
    /\ \A i, j \in 1..Len(written) : i < j => written[i].id < written[j].id

\* chunks 1 and 2 written while chunk 3 waits: a drain that ran beside play()
C10_Witness ==
    /\ Len(written) = 2
    /\ written[1].id = 1
    /\ written[2].id = 2
    /\ Len(spkQ) = 1
    /\ spkQ[1].id = 3

\* C11: a call of clear() leaves the queue empty, and a chunk that clear() took off
\* the queue is never written to the device, whatever play(), clear() and the
\* drain loop do before and after.
C11_ClearedNeverWritten ==
    [][/\ SpkClear => spkQ' = << >>
       /\ \A i \in 1..Len(written') : written'[i].id \notin discarded']_vars

\* clear() discarded chunk 2 after chunk 1 was written, and chunk 3, played after
\* the clear, was written too
C11_Witness ==
    /\ discarded = {2}
    /\ Len(written) = 2
    /\ written[1].id = 1
    /\ written[2].id = 3
    /\ spkQ = << >>

\* the chunk with this id was written to the device
WasWritten(id) == \E i \in 1..Len(written) : written[i].id = id

\* C12: the count of unfinished chunks is the number of chunks on the queue, under
\* any interleaving of play(), clear() and the drain loop; a caller of drain() is
\* not left waiting once the queue is empty; and when drain() is woken or has
\* returned, every chunk played before the call was written or discarded by clear().
C12_DrainReturnsWhenDone ==
    /\ unfinished = Len(spkQ)
    /\ joinPc = "waiting" => spkQ # << >>
    /\ joinPc \in {"woken", "returned"} =>
          \A id \in 1..(joinSnap - 1) : WasWritten(id) \/ id \in discarded

\* drain() was called with three chunks played, waited, and was woken after the
\* drain loop wrote one chunk and clear() discarded the others
C12_Witness ==
    /\ joinPc = "woken"
    /\ joinSnap = 4
    /\ Len(written) = 1
    /\ Cardinality(discarded) = 2

----------------------------------------------------------------------------
(* audio_io.py: MicCapture.  A chunk is the number of the hardware block (1, 2,
   ...); 0 stands for the None sentinel of __aexit__. *)

\* self._q.get() in __anext__: the oldest entry
CaptureGet(q) == Head(q)

\* MicCapture.__aenter__: the loop is remembered and the stream started
CapOpen ==
    /\ capPc = "built"
    /\ capPc' = "open"
    /\ UNCHANGED <<capReady, capQ, capIter, delivered, yielded>>

\* MicCapture.__aenter__ when stream.start() raises PortAudioError
CapOpenFail ==
    /\ capPc = "built"
    /\ capPc' = "failed"
    /\ UNCHANGED <<capReady, capQ, capIter, delivered, yielded>>

\* MicCapture._callback, on the audio thread of a started stream (self._loop is
\* set before the stream exists): the block is copied and its put_nowait handed to
\* the loop
CapCallback ==
    /\ capPc = "open"
    /\ Len(delivered) < MaxCaptured
    /\ delivered' = Append(delivered, Len(delivered) + 1)
    /\ capReady' = CallSoonThreadsafe(capReady, Len(delivered) + 1)
    /\ UNCHANGED <<capPc, capQ, capIter, yielded>>

\* the loop runs the oldest put_nowait handed to it
CapLoopRun ==
    /\ capReady # << >>
    /\ capQ' = Append(capQ, Head(capReady))
    /\ capReady' = Tail(capReady)
    /\ UNCHANGED <<capPc, capIter, delivered, yielded>>

\* MicCapture.__aexit__: the stream is stopped and closed and None is put on the
\* queue, with no await in between (the queue is unbounded)
CapClose ==
    /\ capPc = "open"
    /\ capPc' = "closed"
    /\ capQ' = Append(capQ, 0)
    /\ UNCHANGED <<capReady, capIter, delivered, yielded>>

\* MicCapture.__anext__: the oldest entry of the queue; None ends the iteration
CapAnext ==
    /\ capIter = "run"
    /\ capQ # << >>
    /\ capQ' = Tail(capQ)
    /\ IF CaptureGet(capQ) = 0
         THEN /\ capIter' = "stopped"
              /\ UNCHANGED yielded
         ELSE /\ yielded' = Append(yielded, CaptureGet(capQ))
              /\ UNCHANGED capIter
    /\ UNCHANGED <<capPc, capReady, delivered>>

(* SpecCapture: one MicCapture, its stream and its consumer *)

InitCapture ==
    /\ capPc = "built"
    /\ NewCapture
    /\ NoLive
    /\ NoActivator
    /\ spkPc = "none"
    /\ NewSpeaker
    /\ activation_mode = VAD
    /\ running = FALSE
    /\ sessPc = "none"
    /\ micPc = "idle"
    /\ recvPc = "idle"
    /\ slashPc = "idle"
    /\ forwarding = FALSE
    /\ vizState = "IDLE"
    /\ barge_in_streak = 0
    /\ interrupted = FALSE
    /\ curReply = 1
    /\ bargedReplies = {}
    /\ cutReplies = {}
    /\ lastMic = NoMic
    /\ failure = "none"
    /\ NoConditioner

\* the variables a MicCapture does not touch
capOthers == <<actVars, spkVars, liveVars, activation_mode, running, sessPc, micPc, recvPc, slashPc,
               forwarding, vizState, barge_in_streak, interrupted, curReply,
               bargedReplies, cutReplies, lastMic, failure, condVars>>

NextCapture ==
    \/ CapOpen /\ UNCHANGED capOthers
    \/ CapOpenFail /\ UNCHANGED capOthers
    \/ CapCallback /\ UNCHANGED capOthers
    \/ CapLoopRun /\ UNCHANGED capOthers
    \/ CapClose /\ UNCHANGED capOthers
    \/ CapAnext /\ UNCHANGED capOthers

SpecCapture == InitCapture /\ [][NextCapture]_vars

\* s is the beginning of t
IsPrefix(s, t) == Len(s) <= Len(t) /\ s = SubSeq(t, 1, Len(s))

\* C13: the chunks yielded to the consumer are the chunks the callback delivered,
\* in callback order and none twice or skipped, and a consumer that pulled until
\* the iteration ended has been given every chunk delivered while the capture was
\* open.
C13_CaptureNeverDiscards ==
    /\ IsPrefix(yielded, delivered)
    /\ capIter = "stopped" => yielded = delivered

----------------------------------------------------------------------------
(* gemini_live_client.py: LiveSession.  A payload is a string, "" standing for None
   or an empty payload.  A server message is [interrupted, parts, turn_complete]
   and a raw part [data, text], as receive() reads them. *)

\* LiveSession.interrupt
Interrupt == TRUE

\* a variant of ClearInterrupt: the flag is left set
ClearInterruptLeavesSet == TRUE

\* LiveSession.clear_interrupt
ClearInterrupt == FALSE

\* payloads of the raw parts: audio bytes, plain text, text that is markup only
RawData == {"", "pcm"}
RawTexts == {"", "ok", "**"}
RawParts == [data : RawData, text : RawTexts]
PartLists == UNION {[1..n -> RawParts] : n \in 0..MaxParts}
Messages == [interrupted : BOOLEAN, parts : PartLists, turn_complete : BOOLEAN]

\* response_formatter.format_for_speech on the texts above: markup is stripped
FormatForSpeech(text) == IF text = "**" THEN "" ELSE text

\* ResponsePart.__init__
ResponsePart(audio, text, is_final) ==
    [audio |-> audio, text |-> text, is_final |-> is_final]

\* ResponsePart(is_final=True)
FinalPart == ResponsePart("", "", TRUE)

\* a variant of PartYield: one ResponsePart with both payloads of the raw part
PartYieldMerged(part) ==
    IF part.data # "" \/ part.text # ""
      THEN <<ResponsePart(part.data, FormatForSpeech(part.text), FALSE)>>
      ELSE << >>

\* receive 176-184: the ResponseParts yielded for one raw part
PartYield(part) ==
    (IF part.data # "" THEN <<ResponsePart(part.data, "", FALSE)>> ELSE << >>)
    \o (IF part.text # ""
          THEN <<ResponsePart("", FormatForSpeech(part.text), FALSE)>>
          ELSE << >>)

\* receive 175-184: the ResponseParts yielded for the parts of a message
RECURSIVE PartsYield(_)
PartsYield(parts) ==
    IF parts = << >> THEN << >> ELSE PartYield(Head(parts)) \o PartsYield(Tail(parts))

\* receive 166-168 and 187-190: the message ends the sequence (return)
Ends(msg) == msg.interrupted \/ msg.turn_complete

\* a variant of MsgYield: the interrupted attribute is not looked at
MsgYieldNoInterruptCheck(msg) ==
    PartsYield(msg.parts) \o (IF msg.turn_complete THEN <<FinalPart>> ELSE << >>)

\* receive 164-190: the ResponseParts yielded for one server message
MsgYield(msg) ==
    IF msg.interrupted
      THEN <<FinalPart>>
      ELSE PartsYield(msg.parts) \o (IF msg.turn_complete THEN <<FinalPart>> ELSE << >>)

\* a variant of Transmits: the flag is not looked at
TransmitsAlways(flag) == TRUE

\* send_audio 127-129: the chunk is sent unless the interrupt flag is set
Transmits(flag) == ~flag

\* LiveSession.interrupt called
LiveInterrupt ==
    /\ genPc # "none"
    /\ interrupted' = Interrupt
    /\ UNCHANGED liveVars

\* LiveSession.clear_interrupt called
LiveClearInterrupt ==
    /\ genPc # "none"
    /\ interrupted' = ClearInterrupt
    /\ UNCHANGED liveVars

\* LiveSession.send_audio called; the chunk is the number of the call
LiveSendAudio ==
    /\ genPc # "none"
    /\ Len(sendFlags) < MaxSent
    /\ sendFlags' = Append(sendFlags, interrupted)
    /\ sentLog' = IF Transmits(interrupted)
                    THEN Append(sentLog, Len(sendFlags) + 1)
                    ELSE sentLog
    /\ UNCHANGED <<interrupted, genPc, curMsg, genParts, msgsRead, msgYields, finalSeen,
                   afterFinal>>

\* LiveSession.receive called: a new generator (one left unfinished is abandoned)
LiveReceive ==
    /\ genPc \in {"idle", "run", "ended"}
    /\ genPc' = "run"
    /\ curMsg' = NoMsg
    /\ genParts' = << >>
    /\ msgYields' = << >>
    /\ finalSeen' = FALSE
    /\ afterFinal' = FALSE
    /\ UNCHANGED <<interrupted, msgsRead, sentLog, sendFlags>>

\* receive 162: the generator takes the next server message of the raw stream
LiveGenRead(msg) ==
    /\ genPc = "run"
    /\ genParts = << >>
    /\ ~Ends(curMsg)
    /\ msgsRead < MaxMsgs
    /\ msgsRead' = msgsRead + 1
    /\ curMsg' = msg
    /\ genParts' = MsgYield(msg)
    /\ msgYields' = << >>
    /\ UNCHANGED <<interrupted, genPc, finalSeen, afterFinal, sentLog, sendFlags>>

\* receive 162: the raw stream has no further message, the generator ends
LiveGenRawEnd ==
    /\ genPc = "run"
    /\ genParts = << >>
    /\ ~Ends(curMsg)
    /\ genPc' = "ended"
    /\ UNCHANGED <<interrupted, curMsg, genParts, msgsRead, msgYields, finalSeen,
                   afterFinal, sentLog, sendFlags>>

\* one yield of receive(): the consumer is given the next part
LiveGenYield ==
    /\ genPc = "run"
    /\ genParts # << >>
    /\ genParts' = Tail(genParts)
    /\ msgYields' = Append(msgYields, Head(genParts))
    /\ finalSeen' = (finalSeen \/ Head(genParts).is_final)
    /\ afterFinal' = (afterFinal \/ finalSeen)
    /\ UNCHANGED <<interrupted, genPc, curMsg, msgsRead, sentLog, sendFlags>>

\* receive 168 and 190: return after the final part of the message
LiveGenReturn ==
    /\ genPc = "run"
    /\ genParts = << >>
    /\ Ends(curMsg)
    /\ genPc' = "ended"
    /\ UNCHANGED <<interrupted, curMsg, genParts, msgsRead, msgYields, finalSeen,
                   afterFinal, sentLog, sendFlags>>

(* SpecLive: one LiveSession, its callers and the remote *)

InitLive ==
    /\ genPc = "idle"
    /\ NewLive
    /\ interrupted = FALSE
    /\ NoCapture
    /\ NoActivator
    /\ spkPc = "none"
    /\ NewSpeaker
    /\ activation_mode = VAD
    /\ running = FALSE
    /\ sessPc = "none"
    /\ micPc = "idle"
    /\ recvPc = "idle"
    /\ slashPc = "idle"
    /\ forwarding = FALSE
    /\ vizState = "IDLE"
    /\ barge_in_streak = 0
    /\ curReply = 1
    /\ bargedReplies = {}
    /\ cutReplies = {}
    /\ lastMic = NoMic
    /\ failure = "none"
    /\ NoConditioner

\* the variables a LiveSession does not touch
liveOthers == <<actVars, spkVars, capVars, activation_mode, running, sessPc, micPc, recvPc,
                slashPc, forwarding, vizState, barge_in_streak, curReply, bargedReplies,
                cutReplies, lastMic, failure, condVars>>

NextLive ==
    \/ LiveInterrupt /\ UNCHANGED liveOthers
    \/ LiveClearInterrupt /\ UNCHANGED liveOthers
    \/ LiveSendAudio /\ UNCHANGED liveOthers
    \/ LiveReceive /\ UNCHANGED liveOthers
    \/ \E msg \in Messages : LiveGenRead(msg) /\ UNCHANGED liveOthers
    \/ LiveGenRawEnd /\ UNCHANGED liveOthers
    \/ LiveGenYield /\ UNCHANGED liveOthers
    \/ LiveGenReturn /\ UNCHANGED liveOthers

SpecLive == InitLive /\ [][NextLive]_vars

\* the calls of send_audio, by number, that found the flag clear
RECURSIVE ClearCalls(_)
ClearCalls(flags) ==
    IF flags = << >>
      THEN << >>
      ELSE LET n == Len(flags)
           IN ClearCalls(SubSeq(flags, 1, n - 1))
              \o (IF flags[n] THEN << >> ELSE <<n>>)

\* C14: the chunks transmitted to the remote are exactly those of the send_audio
\* calls that found the interrupt flag clear, in call order: a call made while the
\* flag is set transmits nothing, a call made while it is clear transmits its chunk.
C14_SendAudioGatedByFlag == sentLog = ClearCalls(sendFlags)

\* the first call found the flag set and sent nothing, the second found it clear
C14_Witness ==
    /\ sendFlags = <<TRUE, FALSE>>
    /\ sentLog = <<2>>

\* C15: a receive() sequence yields nothing after a final part and, once it has
\* yielded one, can only return; a message with the interrupted attribute yields
\* one final part and nothing else.
C15_FinalEndsSequence ==
    /\ ~afterFinal
    /\ (finalSeen /\ genPc = "run") => (genParts = << >> /\ Ends(curMsg))
    /\ curMsg.interrupted => msgYields \o genParts = <<FinalPart>>

\* the sequence ended on an interrupted message that also carried parts and
\* turn_complete: one final part was yielded for it
C15_Witness ==
    /\ genPc = "ended"
    /\ curMsg.interrupted
    /\ curMsg.turn_complete
    /\ curMsg.parts # << >>
    /\ msgYields = <<FinalPart>>
    /\ msgsRead = 2

\* C16: no part yielded by receive() has both an audio payload and a text payload.
C16_OnePayloadKind ==
    \A i \in 1..Len(msgYields) : msgYields[i].audio = "" \/ msgYields[i].text = ""

\* a raw part with both inline data and text was yielded as two parts
C16_Witness ==
    /\ curMsg.parts = <<[data |-> "pcm", text |-> "ok"]>>
    /\ msgYields = <<ResponsePart("pcm", "", FALSE), ResponsePart("", "ok", FALSE)>>

----------------------------------------------------------------------------
(* voice_session.py: VoiceSession *)

LISTENING == "LISTENING"
THINKING == "THINKING"
SPEAKING == "SPEAKING"

\* VoiceSession.__init__ (the visualizer, activator and speaker do not exist yet)
InitSession ==
    /\ activation_mode \in VoiceActivation
    /\ running = TRUE
    /\ sessPc = "init"
    /\ micPc = "idle"
    /\ recvPc = "idle"
    /\ slashPc = "idle"
    /\ forwarding = FALSE
    /\ vizState = "IDLE"
    /\ barge_in_streak = 0
    /\ interrupted = FALSE
    /\ curReply = 1
    /\ bargedReplies = {}
    /\ cutReplies = {}
    /\ lastMic = NoMic
    /\ failure = "none"
    /\ NoConditioner
    /\ NoActivator
    /\ NoSpeaker
    /\ NoUnits

\* _main_loop 142-163: build the activator, open the capture and the speaker, start
\* the activator, create the slash-command task, show LISTENING; no other task
\* exists yet
MainLoopOpen ==
    /\ sessPc = "init"
    /\ sessPc' = "connecting"
    /\ actKind' = activation_mode
    /\ actPc' = "started"
    /\ IF activation_mode = VAD
         THEN /\ events' = Emit(events, LISTENING_START)
              /\ emittedLog' = Append(emittedLog, LISTENING_START)
         ELSE UNCHANGED <<events, emittedLog>>
    /\ spkPc' = "open"
    /\ drainPc' = "run"
    /\ slashPc' = "run"
    /\ vizState' = LISTENING
    /\ UNCHANGED <<loopReady, holding, listening_for_wake, active_turn, silence_streak,
                   audio_queue, handledLog, lastOp, quietRun>>
    /\ capPc' = "open"
    /\ UNCHANGED <<activation_mode, running, micPc, recvPc, forwarding,
                   barge_in_streak, interrupted, curReply, bargedReplies, cutReplies,
                   lastMic, failure, condVars>>
    /\ UNCHANGED <<spkQ, written, nextBuf, unfinished, joinPc, joinSnap, discarded>>
    /\ UNCHANGED <<capReady, capQ, capIter, delivered, yielded, liveVars>>

\* _main_loop 166-171 and _mic_forward_loop 197-198: the live session is open, the
\* two loops are created and the mic loop sets its locals
SessionConnect ==
    /\ sessPc = "connecting"
    /\ sessPc' = "live"
    /\ micPc' = "run"
    /\ recvPc' = "run"
    /\ forwarding' = (activation_mode = VAD)
    /\ barge_in_streak' = 0
    /\ UNCHANGED <<activation_mode, running, slashPc, vizState, interrupted, curReply,
                   bargedReplies, cutReplies, lastMic, failure, condVars>>
    /\ UNCHANGED <<actVars, spkVars, unitVars>>

\* _watch_slash_commands 316-319: the next mode (the order of the /help text, 329)
NextMode(mode) ==
    CASE mode = VAD -> PTT
      [] mode = PTT -> WAKE_WORD
      [] OTHER -> VAD

\* one line read by _watch_slash_commands: "/exit" (or "/quit", "/text") or
\* "/activation"
SlashCommand(cmd) ==
    /\ slashPc = "run"
    /\ sessPc \in {"connecting", "live"}
    /\ IF cmd = "/exit"
         THEN /\ running' = FALSE
              /\ slashPc' = "done"
              /\ UNCHANGED activation_mode
         ELSE /\ activation_mode' = NextMode(activation_mode)
              /\ slashPc' = IF running THEN "run" ELSE "done"
              /\ UNCHANGED running
    /\ UNCHANGED <<sessPc, micPc, recvPc, forwarding, vizState, barge_in_streak,
                   interrupted, curReply, bargedReplies, cutReplies, lastMic, failure, condVars>>
    /\ UNCHANGED <<actVars, spkVars, unitVars>>

\* a variant of EndTurn: nothing is sent
EndTurnNotSent(n) == n

\* LiveSession.end_turn (gemini_live_client.py 131-133): one audio_stream_end
\* message is sent; n counts them
EndTurn(n) == n + 1

\* _mic_forward_loop 213-225: the events waiting in the activator's queue are taken
\* one by one, oldest first; st is the state so far
\* [forwarding, interrupted, viz, running, rest, handled, endTurns]
RECURSIVE DrainEvents(_)
DrainEvents(st) ==
    IF st.rest = << >> \/ ~st.running
      THEN st
      ELSE LET event == Head(st.rest)
               took == [st EXCEPT !.rest = Tail(st.rest),
                                  !.handled = Append(st.handled, event)]
           IN CASE event = LISTENING_START ->
                     DrainEvents([took EXCEPT !.forwarding = TRUE,
                                              !.viz = LISTENING,
                                              !.interrupted = ClearInterrupt])
                [] event = LISTENING_END ->
                     DrainEvents([took EXCEPT !.forwarding = FALSE,
                                              !.endTurns = EndTurn(@),
                                              !.viz = THINKING])
                [] event = EXIT ->
                     [took EXCEPT !.running = FALSE]
                [] OTHER -> DrainEvents(took)

\* _mic_forward_loop 228-237: the barge-in check on one chunk;
\* st is [streak, interrupted, viz, fired]
BargeIn(st, loud) ==
    IF st.viz = SPEAKING
      THEN IF loud
             THEN IF st.streak + 1 >= BARGE_IN_FRAMES_REQUIRED
                    THEN [streak |-> 0, interrupted |-> Interrupt, viz |-> LISTENING,
                          fired |-> TRUE]
                    ELSE [st EXCEPT !.streak = st.streak + 1]
             ELSE [st EXCEPT !.streak = 0]
      ELSE st

\* the events the next iteration of the mic loop finds and what handling them does
MicDrain ==
    DrainEvents([forwarding |-> forwarding, interrupted |-> interrupted,
                 viz |-> vizState, running |-> running, rest |-> events,
                 handled |-> << >>, endTurns |-> 0])

\* the barge-in check of the next iteration of the mic loop, on this chunk
MicBargeIn(chunk) ==
    BargeIn([streak |-> barge_in_streak, interrupted |-> MicDrain.interrupted,
             viz |-> MicDrain.viz, fired |-> FALSE],
            RmsAboveBargeInThreshold(chunk))

\* lastMic after an iteration that reached the end of the loop body: processed and
\* passed (240-242: the chunk was conditioned, its result passed to send_audio)
\* and, where the frames are counted, run (the frames in a row, this one included,
\* that were loud while the state was SPEAKING; 0 after a trigger)
MicDid(d, b, loud, counted) ==
    [processed |-> d.forwarding, passed |-> d.forwarding,
     run |-> IF counted /\ d.viz = SPEAKING /\ loud /\ ~b.fired
               THEN lastMic.run + 1 ELSE 0]

\* one iteration of _mic_forward_loop on one chunk of the microphone, taken as one
\* step: no other task runs at its awaits (end_turn, send_audio).  Only this loop
\* reads the activator's queue, so the order of the events does not depend on that.
\* counted: the run of loud frames is recorded in lastMic.
MicIteration(chunk, counted) ==
    /\ sessPc = "live"
    /\ micPc = "run"
    /\ IF ~running
         THEN \* 201-202
              /\ micPc' = "done"
              /\ lastMic' = NoMic
              /\ UNCHANGED <<sessPc, running, events, handledLog, forwarding, vizState,
                             barge_in_streak, interrupted>>
         ELSE IF actKind = WAKE_WORD
           THEN \* 209-210: WakeWordActivator has no push_rms, the call raises
                \* AttributeError, which nothing catches
                /\ sessPc' = "crashed"
                /\ micPc' = "done"
                /\ lastMic' = NoMic
                /\ UNCHANGED <<running, events, handledLog, forwarding, vizState,
                               barge_in_streak, interrupted>>
           ELSE LET d == MicDrain
                    b == MicBargeIn(chunk)
                IN /\ events' = d.rest
                   /\ handledLog' = handledLog \o d.handled
                   /\ forwarding' = d.forwarding
                   /\ running' = d.running
                   /\ UNCHANGED sessPc
                   /\ IF ~d.running
                        THEN \* 223-225: EXIT returns from the loop
                             /\ micPc' = "done"
                             /\ vizState' = d.viz
                             /\ interrupted' = d.interrupted
                             /\ lastMic' = NoMic
                             /\ UNCHANGED barge_in_streak
                        ELSE /\ micPc' = "run"
                             /\ vizState' = b.viz
                             /\ interrupted' = b.interrupted
                             /\ barge_in_streak' = b.streak
                             /\ lastMic' = MicDid(d, b, RmsAboveBargeInThreshold(chunk),
                                                  counted)
    /\ UNCHANGED <<activation_mode, recvPc, slashPc, curReply, bargedReplies, cutReplies,
                   failure, condVars>>
    /\ UNCHANGED <<actKind, actPc, loopReady, holding, listening_for_wake, active_turn,
                   silence_streak, audio_queue, emittedLog, lastOp, quietRun>>
    /\ UNCHANGED <<spkVars, unitVars>>

\* one iteration of _mic_forward_loop
MicStep(chunk) == MicIteration(chunk, FALSE)

\* the same, with the run of loud frames recorded
MicStepCounted(chunk) == MicIteration(chunk, TRUE)

\* one part taken by _receive_loop from sess.receive(): kind is "audio", "text",
\* "final" (the final part of turn_complete) or "cut" (the synthetic final part of
\* a server-side interruption); the loop cannot tell the last two apart
RecvPart(kind) ==
    /\ sessPc = "live"
    /\ recvPc = "run"
    /\ curReply <= MaxReplies
    /\ kind = "audio" => nextBuf <= MaxSessionBufs
    /\ IF ~running
         THEN \* 255-256 and 253
              /\ recvPc' = "done"
              /\ UNCHANGED <<vizState, interrupted, curReply, bargedReplies, cutReplies,
                             spkQ, nextBuf, unfinished, discarded>>
         ELSE /\ UNCHANGED recvPc
              /\ CASE kind \in {"final", "cut"} ->
                        \* 258-263
                        /\ vizState' = LISTENING
                        /\ interrupted' = IF activation_mode = VAD
                                            THEN ClearInterrupt ELSE interrupted
                        /\ curReply' = curReply + 1
                        /\ cutReplies' = IF kind = "cut"
                                           THEN cutReplies \cup {curReply}
                                           ELSE cutReplies
                        /\ UNCHANGED <<bargedReplies, spkQ, nextBuf, unfinished,
                                       discarded>>
                   [] kind = "audio" ->
                        \* 265-276
                        IF interrupted
                          THEN /\ spkQ' = Clear(spkQ)
                               /\ unfinished' = ClearDone(unfinished, spkQ)
                               /\ discarded' = discarded \cup (Ids(spkQ) \ Ids(spkQ'))
                               /\ interrupted' = ClearInterrupt
                               /\ vizState' = LISTENING
                               /\ bargedReplies' = bargedReplies \cup {curReply}
                               /\ UNCHANGED <<curReply, cutReplies, nextBuf>>
                          ELSE /\ vizState' = SPEAKING
                               /\ spkQ' = Play(spkQ, [id |-> nextBuf,
                                                      reply |-> curReply])
                               /\ unfinished' = PutCount(unfinished)
                               /\ nextBuf' = nextBuf + 1
                               /\ UNCHANGED <<interrupted, curReply, bargedReplies,
                                              cutReplies, discarded>>
                   [] OTHER ->
                        \* 278-280
                        UNCHANGED <<vizState, interrupted, curReply, bargedReplies,
                                    cutReplies, spkQ, nextBuf, unfinished, discarded>>
    /\ UNCHANGED <<activation_mode, running, sessPc, micPc, slashPc, forwarding,
                   barge_in_streak, lastMic, failure, condVars>>
    /\ UNCHANGED <<spkPc, drainPc, written, joinPc, joinSnap>>
    /\ UNCHANGED <<actVars, unitVars>>

\* _main_loop 171-177 and the exit of the two async with blocks, up to the wait for
\* the drain task: gather returned because the three tasks are done, the live
\* session is closed, the activator stopped, and SpeakerPlayback.__aexit__ has put
\* the sentinel on the queue
GatherReturns ==
    /\ sessPc = "live"
    /\ micPc = "done"
    /\ recvPc = "done"
    /\ slashPc = "done"
    /\ sessPc' = "closing"
    /\ ActivatorStop
    /\ SpkCloseBegin
    /\ UNCHANGED <<activation_mode, running, micPc, recvPc, slashPc, forwarding, vizState,
                   barge_in_streak, interrupted, curReply, bargedReplies, cutReplies,
                   lastMic, failure, condVars,
                   unitVars>>

\* the rest of the exit of the async with block: the drain task ended, the speaker
\* stream is closed, MicCapture.__aexit__ and the visualizer's exit run, and
\* _main_loop and run() return
MainLoopReturn ==
    /\ sessPc = "closing"
    /\ sessPc' = "returned"
    /\ SpkCloseEnd
    /\ CapClose
    /\ UNCHANGED <<activation_mode, running, micPc, recvPc, slashPc, forwarding, vizState,
                   barge_in_streak, interrupted, curReply, bargedReplies, cutReplies,
                   lastMic, failure, condVars,
                   liveVars>>
    /\ UNCHANGED actVars

\* the activator's threads and the slash task run: the session is being connected
\* or is live
LoopAlive == sessPc \in {"connecting", "live"}

\* the event loop runs callbacks and the drain task
LoopRuns == sessPc \in {"connecting", "live", "closing"}

----------------------------------------------------------------------------
(* Spec: one VoiceSession.  The monitor task of a WakeWordActivator takes no step
   here: nothing calls push_audio, so its queue stays empty.  A final part stands
   for both ways a reply ends: the receive loop treats them alike. *)

Init == InitSession

\* the steps of a session other than the iterations of the mic loop
SessionSteps ==
    \/ MainLoopOpen
    \/ SessionConnect
    \/ \E cmd \in {"/exit", "/activation"} : SlashCommand(cmd)
    \/ \E key \in Keys :
          /\ LoopAlive
          /\ Len(emittedLog) < MaxSessionEvents
          /\ OnPressBody(key)
          /\ UNCHANGED <<lastOp, sessVars, spkVars>>
    \/ \E key \in Keys :
          /\ LoopAlive
          /\ Len(emittedLog) < MaxSessionEvents
          /\ OnReleaseBody(key)
          /\ UNCHANGED <<lastOp, sessVars, spkVars>>
    \/ LoopRuns /\ LoopRunReady /\ UNCHANGED <<sessVars, spkVars>>
    \/ \E kind \in {"audio", "text", "final"} : RecvPart(kind)
    \/ LoopRuns /\ SpkDrainStep /\ UNCHANGED <<actVars, sessVars>>
    \/ GatherReturns
    \/ MainLoopReturn

Next ==
    \/ SessionSteps
    \/ \E chunk \in MicChunks : MicStep(chunk)

Spec == Init /\ [][Next]_vars

(* SpecBargeIn: the session with the loud frames of the barge-in check counted *)

NextBargeIn ==
    \/ SessionSteps
    \/ \E chunk \in MicChunks : MicStepCounted(chunk)

SpecBargeIn == Init /\ [][NextBargeIn]_vars

(* SpecInterrupts: the session with the two interruption signals told apart: the
   final part of a server-side interruption is recorded as such, and
   VADActivator.signal_playback_interrupted is called (voice_session.py has no call
   of it, the caller is outside). *)

NextInterrupts ==
    \/ Next
    \/ RecvPart("cut")
    \/ /\ LoopAlive
       /\ Len(emittedLog) < MaxSessionEvents
       /\ SignalPlaybackInterrupted
       /\ UNCHANGED <<sessVars, spkVars>>

SpecInterrupts == Init /\ [][NextInterrupts]_vars

----------------------------------------------------------------------------
(* Failures of a session: the exceptions that leave _main_loop and what run()
   does with them *)

\* run 124-133: the except clauses
CaughtByRun == {"LiveAPIKeyError", "LiveAPIUnavailableError", "AudioInputError",
                "AudioOutputError", "KeyboardInterrupt"}

\* a run() that swallows every exception
RunEndSwallows(kind) == "returned"

\* run 122-136: how run() ends when _main_loop raised an exception of class kind
RunEnd(kind) == IF kind \in CaughtByRun THEN "returned" ELSE "raised"

\* _main_loop 141-144: GenaiLiveClient.__init__ raises (gemini_live_client.py
\* 220-229: the package is missing, or there is no API key); nothing is open yet
ClientInitFails(kind) ==
    /\ sessPc = "init"
    /\ failure' = kind
    /\ sessPc' = RunEnd(kind)
    /\ UNCHANGED <<activation_mode, running, micPc, recvPc, slashPc, forwarding, vizState,
                   barge_in_streak, interrupted, curReply, bargedReplies, cutReplies,
                   lastMic, condVars, unitVars>>
    /\ UNCHANGED <<actVars, spkVars>>

\* _main_loop 141-158, up to the end of MicCapture.__aenter__: the client, the
\* activator and the preprocessor are built, the visualizer is entered and the
\* capture stream is started
CaptureOpens ==
    /\ sessPc = "init"
    /\ sessPc' = "opening"
    /\ actKind' = activation_mode
    /\ actPc' = "built"
    /\ capPc' = "open"
    /\ UNCHANGED <<events, loopReady, holding, listening_for_wake, active_turn,
                   silence_streak, audio_queue, emittedLog, handledLog, lastOp, quietRun>>
    /\ UNCHANGED <<activation_mode, running, micPc, recvPc, slashPc, forwarding, vizState,
                   barge_in_streak, interrupted, curReply, bargedReplies, cutReplies,
                   lastMic, failure, condVars, liveVars>>
    /\ UNCHANGED <<capReady, capQ, capIter, delivered, yielded>>
    /\ UNCHANGED spkVars

\* the same when stream.start() raises in MicCapture.__aenter__ (audio_io.py
\* 134-140): AudioInputError leaves the async with block and is caught by run()
CaptureOpenFails ==
    /\ sessPc = "init"
    /\ actKind' = activation_mode
    /\ actPc' = "built"
    /\ capPc' = "failed"
    /\ failure' = "AudioInputError"
    /\ sessPc' = RunEnd("AudioInputError")
    /\ UNCHANGED <<events, loopReady, holding, listening_for_wake, active_turn,
                   silence_streak, audio_queue, emittedLog, handledLog, lastOp, quietRun>>
    /\ UNCHANGED <<activation_mode, running, micPc, recvPc, slashPc, forwarding, vizState,
                   barge_in_streak, interrupted, curReply, bargedReplies, cutReplies,
                   lastMic, condVars, liveVars>>
    /\ UNCHANGED <<capReady, capQ, capIter, delivered, yielded>>
    /\ UNCHANGED spkVars

\* _main_loop 159: stream.start() raises in SpeakerPlayback.__aenter__ (audio_io.py
\* 208-211); the capture, entered before, is closed by its __aexit__, and
\* AudioOutputError is caught by run()
PlaybackOpenFails ==
    /\ sessPc = "opening"
    /\ spkPc' = "failed"
    /\ failure' = "AudioOutputError"
    /\ CapClose
    /\ sessPc' = RunEnd("AudioOutputError")
    /\ UNCHANGED <<drainPc, spkQ, written, nextBuf, unfinished, joinPc, joinSnap,
                   discarded>>
    /\ UNCHANGED <<activation_mode, running, micPc, recvPc, slashPc, forwarding, vizState,
                   barge_in_streak, interrupted, curReply, bargedReplies, cutReplies,
                   lastMic, condVars, liveVars>>
    /\ UNCHANGED actVars

\* _main_loop 159-161: the speaker is entered and activator.start() raises
\* ImportError (activation.py 128-132: pynput is missing; 269-276: openwakeword is
\* missing); SpeakerPlayback.__aexit__ puts the sentinel and waits for the drain
\* task
ActivatorStartFails ==
    /\ sessPc = "opening"
    /\ actKind \in {PTT, WAKE_WORD}
    /\ actPc' = "failed"
    /\ failure' = "ImportError"
    /\ sessPc' = "unwinding"
    /\ spkPc' = "closing"
    /\ drainPc' = "run"
    /\ spkQ' = Play(spkQ, NoneChunk)
    /\ unfinished' = PutCount(unfinished)
    /\ UNCHANGED <<written, nextBuf, joinPc, joinSnap, discarded>>
    /\ UNCHANGED <<actKind, events, loopReady, holding, listening_for_wake, active_turn,
                   silence_streak, audio_queue, emittedLog, handledLog, lastOp, quietRun>>
    /\ UNCHANGED <<activation_mode, running, micPc, recvPc, slashPc, forwarding, vizState,
                   barge_in_streak, interrupted, curReply, bargedReplies, cutReplies,
                   lastMic, condVars, unitVars>>

\* _main_loop 159-165 without a failure: the speaker is entered, the activator
\* started, the slash-command task created, LISTENING shown
MainLoopStart ==
    /\ sessPc = "opening"
    /\ sessPc' = "connecting"
    /\ actPc' = "started"
    /\ IF actKind = VAD
         THEN /\ events' = Emit(events, LISTENING_START)
              /\ emittedLog' = Append(emittedLog, LISTENING_START)
         ELSE UNCHANGED <<events, emittedLog>>
    /\ spkPc' = "open"
    /\ drainPc' = "run"
    /\ slashPc' = "run"
    /\ vizState' = LISTENING
    /\ UNCHANGED <<actKind, loopReady, holding, listening_for_wake, active_turn,
                   silence_streak, audio_queue, handledLog, lastOp, quietRun>>
    /\ UNCHANGED <<activation_mode, running, micPc, recvPc, forwarding,
                   barge_in_streak, interrupted, curReply, bargedReplies, cutReplies,
                   lastMic, failure, condVars, unitVars>>
    /\ UNCHANGED <<spkQ, written, nextBuf, unfinished, joinPc, joinSnap, discarded>>

\* the exit of the async with block with an exception on its way, after the wait
\* for the drain task: the speaker stream is closed, MicCapture.__aexit__ and the
\* visualizer's exit run, _main_loop raises and run() ends as its except clauses say
UnwindEnds ==
    /\ sessPc = "unwinding"
    /\ sessPc' = RunEnd(failure)
    /\ SpkCloseEnd
    /\ CapClose
    /\ UNCHANGED <<activation_mode, running, micPc, recvPc, slashPc, forwarding, vizState,
                   barge_in_streak, interrupted, curReply, bargedReplies, cutReplies,
                   lastMic, failure, condVars, liveVars>>
    /\ UNCHANGED actVars

\* the steps a starting session takes by itself while an exception unwinds: the
\* loop runs the capture's callbacks and the drain task, the exit completes
StartupOwnStep ==
    \/ sessPc = "unwinding" /\ CapLoopRun /\ UNCHANGED capOthers
    \/ sessPc = "unwinding" /\ SpkDrainStep /\ UNCHANGED <<actVars, sessVars>>
    \/ UnwindEnds

(* SpecStartup: the start of a session, up to the connection, with the failures of
   the client, of the two devices and of the activator.  The capture stream
   delivers blocks on its own thread from the moment it is started. *)

NextStartup ==
    \/ \E kind \in {"LiveAPIUnavailableError", "LiveAPIKeyError"} : ClientInitFails(kind)
    \/ CaptureOpens
    \/ CaptureOpenFails
    \/ sessPc \in {"opening", "unwinding"} /\ CapCallback /\ UNCHANGED capOthers
    \/ PlaybackOpenFails
    \/ ActivatorStartFails
    \/ MainLoopStart
    \/ StartupOwnStep

SpecStartup == Init /\ [][NextStartup]_vars

\* one iteration of _mic_forward_loop (as MicStep) that reaches send_audio with the
\* interrupt flag clear, and the send (gemini_live_client.py 129) raises: the
\* exception of the transport ends the task
MicSendRaises(chunk) ==
    /\ sessPc = "live"
    /\ micPc = "run"
    /\ running
    /\ actKind # WAKE_WORD
    /\ LET d == MicDrain
           b == MicBargeIn(chunk)
       IN /\ d.running
          /\ d.forwarding
          /\ Transmits(b.interrupted)
          /\ events' = d.rest
          /\ handledLog' = handledLog \o d.handled
          /\ forwarding' = d.forwarding
          /\ vizState' = b.viz
          /\ interrupted' = b.interrupted
          /\ barge_in_streak' = b.streak
          /\ lastMic' = MicDid(d, b, RmsAboveBargeInThreshold(chunk), FALSE)
          /\ micPc' = "raised"
    /\ UNCHANGED <<activation_mode, running, sessPc, recvPc, slashPc, curReply,
                   bargedReplies, cutReplies, failure, condVars>>
    /\ UNCHANGED <<actKind, actPc, loopReady, holding, listening_for_wake, active_turn,
                   silence_streak, audio_queue, emittedLog, lastOp, quietRun>>
    /\ UNCHANGED <<spkVars, unitVars>>

\* _receive_loop 252: the read of the next server message raises inside
\* sess.receive() (gemini_live_client.py 163); the exception ends the task
RecvRaises ==
    /\ sessPc = "live"
    /\ recvPc = "run"
    /\ recvPc' = "raised"
    /\ UNCHANGED <<activation_mode, running, sessPc, micPc, slashPc, forwarding, vizState,
                   barge_in_streak, interrupted, curReply, bargedReplies, cutReplies,
                   lastMic, failure, condVars>>
    /\ UNCHANGED <<actVars, spkVars, unitVars>>

\* _main_loop 171-177 when a task has raised: gather raises the task's exception
\* and cancels nothing, the live session is closed, the finally block cancels the
\* slash task and stops the activator, and SpeakerPlayback.__aexit__ puts the
\* sentinel and waits for the drain task
GatherRaises ==
    /\ sessPc = "live"
    /\ micPc = "raised" \/ recvPc = "raised"
    /\ failure' = "TransportError"
    /\ sessPc' = "unwinding"
    /\ slashPc' = "done"
    /\ ActivatorStop
    /\ SpkCloseBegin
    /\ UNCHANGED <<activation_mode, running, micPc, recvPc, forwarding, vizState,
                   barge_in_streak, interrupted, curReply, bargedReplies, cutReplies,
                   lastMic, condVars, unitVars>>

(* SpecFailures: a VoiceSession whose remote can fail in mid-session *)

NextFailures ==
    \/ Next
    \/ \E chunk \in MicChunks : MicSendRaises(chunk)
    \/ RecvRaises
    \/ GatherRaises
    \/ sessPc = "unwinding" /\ SpkDrainStep /\ UNCHANGED <<actVars, sessVars>>
    \/ UnwindEnds

SpecFailures == Init /\ [][NextFailures]_vars

----------------------------------------------------------------------------
(* Properties of the activators, checked under SpecAct *)

\* the events the last activator input produced
LastEmitted == SubSeq(emittedLog, lastOp.n + 1, Len(emittedLog))

\* the last input was an iteration of _monitor_loop that met the waiting state
MonitoredWaiting == lastOp.op = "monitor" /\ lastOp.pre

\* the last input was an iteration of _monitor_loop that met an active turn
MonitoredActive == lastOp.op = "monitor" /\ ~lastOp.pre

C6_WakeEndIffSilenceRun ==
    /\ MonitoredActive =>
          /\ (LastEmitted = <<LISTENING_END>>) <=> (quietRun = 15)
          /\ LastEmitted \in {<< >>, <<LISTENING_END>>}
          /\ ~QuietChunk(lastOp.chunk) => (quietRun = 0 /\ silence_streak = 0)
          /\ quietRun <= 15
    /\ (actKind = WAKE_WORD /\ active_turn) => silence_streak = quietRun

\* a turn ended by the fifteenth quiet buffer of a run that began after a loud one
C6_Witness ==
    /\ MonitoredActive
    /\ LastEmitted = <<LISTENING_END>>
    /\ lastOp.streak = 14
    /\ Len(emittedLog) = 4

\* C7: exactly one of _listening_for_wake and _active_turn is set.
C7_ExactlyOneWakeState ==
    actKind = WAKE_WORD => (listening_for_wake # active_turn)

\* the activator went through a turn and is waiting again
C7_Witness ==
    /\ actKind = WAKE_WORD
    /\ emittedLog = <<LISTENING_START, LISTENING_END>>
    /\ listening_for_wake
    /\ ~active_turn

\* C8: a press emits LISTENING_START exactly when the key is the bound key and the
\* activator is not holding; a release emits LISTENING_END exactly when the key is
\* the bound key and the activator is holding; another key leaves the holding flag
\* as it was; the events produced alternate START, END, starting with START.
C8_PushToTalk ==
    /\ lastOp.op = "press" =>
          /\ (LastEmitted = <<LISTENING_START>>)
                <=> (lastOp.key = "space" /\ ~lastOp.pre)
          /\ LastEmitted \in {<< >>, <<LISTENING_START>>}
          /\ lastOp.key # "space" => holding = lastOp.pre
    /\ lastOp.op = "release" =>
          /\ (LastEmitted = <<LISTENING_END>>)
                <=> (lastOp.key = "space" /\ lastOp.pre)
          /\ LastEmitted \in {<< >>, <<LISTENING_END>>}
          /\ lastOp.key # "space" => holding = lastOp.pre
    /\ actKind = PTT =>
          \A i \in 1..Len(emittedLog) :
              emittedLog[i] = IF i % 2 = 1 THEN LISTENING_START ELSE LISTENING_END

\* a second press of the bound key while holding, after a whole press and release
C8_Witness ==
    /\ lastOp.op = "press"
    /\ lastOp.key = "space"
    /\ lastOp.pre
    /\ emittedLog = <<LISTENING_START, LISTENING_END, LISTENING_START>>

\* C9: a VADActivator produces exactly one LISTENING_START, in start(), and never
\* LISTENING_END.
C9_VadSingleStart ==
    actKind = VAD =>
        /\ Count(emittedLog, LISTENING_START) = (IF actPc = "built" THEN 0 ELSE 1)
        /\ Count(emittedLog, LISTENING_END) = 0
        /\ lastOp.op = "start" => LastEmitted = <<LISTENING_START>>
        /\ lastOp.op = "signal" => LastEmitted = <<INTERRUPTED>>

\* a stopped VAD activator that was also told of two interruptions
C9_Witness ==
    /\ actKind = VAD
    /\ actPc = "stopped"
    /\ Count(emittedLog, INTERRUPTED) = 2
    /\ Count(emittedLog, LISTENING_START) = 1

----------------------------------------------------------------------------
(* Properties of the session, checked under Spec *)

\* C1: once interrupt() was called and clear() ran for a reply, no audio part of that
\* reply is enqueued for playback any more (the queue was emptied by clear(), so a
\* chunk of such a reply in the queue was enqueued after it).
C1_NoAudioOfBargedReply ==
    \A i \in 1..Len(spkQ) : spkQ[i].reply \notin bargedReplies

\* C2: the step of the mic loop that calls interrupt() also leaves the playback
\* queue empty and the state LISTENING.
C2_BargeInStepClearsQueue ==
    [][(~interrupted /\ interrupted') => (spkQ' = << >> /\ vizState' = LISTENING)]_vars

\* events produced and not yet taken by the mic loop, oldest first
Pending == events \o loopReady

\* C3: no LISTENING_START or LISTENING_END is lost or duplicated on its way to the
\* orchestrator: of each kind, the events the mic loop has acted on plus the ones
\* still on their way are exactly the ones the activator produced, so with nothing
\* on its way the two numbers are equal.
C3_NoLostOrDuplicatedEvents ==
    \A e \in {LISTENING_START, LISTENING_END} :
        /\ Count(emittedLog, e) = Count(handledLog, e) + Count(Pending, e)
        /\ Pending = << >> => Count(handledLog, e) = Count(emittedLog, e)

\* a push-to-talk session whose mic loop acted on a START and an END, each once,
\* while the receive loop had audio queued
C3_Witness ==
    /\ actKind = PTT
    /\ sessPc = "live"
    /\ handledLog = <<LISTENING_START, LISTENING_END>>
    /\ Pending = << >>
    /\ nextBuf > 1

\* C4: the mic loop takes the events in the order the activator produced them, also
\* the ones a PTTActivator hands over from the listener thread.
C4_EventsInProductionOrder ==
    emittedLog = handledLog \o events \o loopReady

\* START was acted on while END, produced on the listener thread, still waits
\* for the loop to put it on the queue
C4_Witness ==
    /\ actKind = PTT
    /\ handledLog = <<LISTENING_START>>
    /\ events = << >>
    /\ loopReady = <<LISTENING_END>>

\* the last element of a non-empty sequence
Last(s) == s[Len(s)]

\* the most recent LISTENING_START or LISTENING_END of a log, "none" without one
RECURSIVE LastGate(_)
LastGate(log) ==
    IF log = << >>
      THEN "none"
      ELSE IF Last(log) \in {LISTENING_START, LISTENING_END}
             THEN Last(log)
             ELSE LastGate(SubSeq(log, 1, Len(log) - 1))

\* C17: in a push-to-talk or wake-phrase session (the activator is of that kind and
\* so is the session's activation mode) an iteration of the mic loop hands its chunk
\* to send_audio only if the most recent START/END event the loop handled is
\* LISTENING_START; an iteration whose last handled event is LISTENING_START leaves
\* the interrupt flag clear and forwarding on, one whose last handled event is
\* LISTENING_END leaves the state THINKING and forwarding off.
C17_ForwardingGate ==
    [][/\ (/\ actKind' \in {PTT, WAKE_WORD}
           /\ activation_mode' \in {PTT, WAKE_WORD}
           /\ lastMic'.passed)
          => LastGate(handledLog') = LISTENING_START
       /\ (handledLog' # handledLog /\ Last(handledLog') = LISTENING_START)
          => (~interrupted' /\ forwarding')
       /\ (handledLog' # handledLog /\ Last(handledLog') = LISTENING_END)
          => (vizState' = THINKING /\ ~forwarding')]_vars

\* the steps the program takes without input from the remote, the user or the
\* keyboard: the connection completes, the loop runs a callback, the mic loop gets
\* a chunk, the drain loop writes, gather returns, the resources are closed
OwnStep ==
    \/ SessionConnect
    \/ LoopRuns /\ LoopRunReady /\ UNCHANGED <<sessVars, spkVars>>
    \/ \E chunk \in MicChunks : MicStep(chunk)
    \/ LoopRuns /\ SpkDrainStep /\ UNCHANGED <<actVars, sessVars>>
    \/ GatherReturns
    \/ MainLoopReturn

\* C20: once the running flag is cleared, the session does not come to rest before
\* run() has returned with the activator stopped and the capture and the playback
\* closed, whatever the remote sends or does not send: a state in which the program
\* can take no step of its own is a state after the return.
C20_ExitTearsDown ==
    (~running /\ ~ENABLED OwnStep) =>
        /\ sessPc = "returned"
        /\ actPc = "stopped"
        /\ spkPc = "closed"
        /\ capPc = "closed"

----------------------------------------------------------------------------
(* Properties of the interruption signals, checked under SpecInterrupts *)

\* C18: an iteration of the mic loop whose last handled event is INTERRUPTED leaves
\* the interrupt flag set, the playback queue empty and the state LISTENING.
C18_InterruptedEventBargesIn ==
    [][(handledLog' # handledLog /\ Last(handledLog') = INTERRUPTED)
          => (interrupted' /\ spkQ' = << >> /\ vizState' = LISTENING)]_vars

\* C19: the step of the receive loop that takes the final part of a server-side
\* interruption leaves the playback queue empty and the state LISTENING, so no
\* audio queued for the interrupted reply is left to be played.
C19_ServerInterruptionClearsQueue ==
    [][(cutReplies' # cutReplies) => (spkQ' = << >> /\ vizState' = LISTENING)]_vars

----------------------------------------------------------------------------
(* Properties of the start of a session, checked under SpecStartup *)

\* the failures of the construction of a session
StartupFailures == {"LiveAPIKeyError", "LiveAPIUnavailableError", "AudioInputError",
                    "AudioOutputError", "ImportError"}

\* C22: at the step in which a construction-time failure (missing credential or
\* package, capture or playback device unavailable, activation resource
\* unavailable) is raised, no capture stream has been started and the capture has
\* delivered no block, so none has been enqueued or transmitted.
C22_FailuresBeforeAnyCapture ==
    [][(failure = "none" /\ failure' \in StartupFailures)
          => (capPc # "open" /\ delivered = << >> /\ sentLog = << >>)]_vars

----------------------------------------------------------------------------
(* Properties of a failing session, checked under SpecFailures *)

\* the steps a session takes by itself, a failing one included
FailureOwnStep ==
    \/ OwnStep
    \/ GatherRaises
    \/ StartupOwnStep

\* C21: when send_audio() or receive() has raised during a session and the
\* exception has reached _main_loop, the session does not come to rest before run()
\* has ended cleanly (it returned, no exception left it) with the activator stopped
\* and the capture and the playback closed.
C21_FailureEndsSessionCleanly ==
    (failure = "TransportError" /\ ~ENABLED FailureOwnStep) =>
        /\ sessPc = "returned"
        /\ actPc = "stopped"
        /\ spkPc = "closed"
        /\ capPc = "closed"

----------------------------------------------------------------------------
(* Properties of the mode and of the mic loop's chunks, checked under Spec *)

\* C24: while a session is running (from the start of the activator to the return
\* of gather) no step changes the activation mode that its loops read, and that
\* mode is the one the activator in use was built for.
C24_ModeFixedWhileRunning ==
    [][LoopAlive => (activation_mode' = activation_mode /\ activation_mode = actKind)]_vars

\* a step that is one iteration of the mic loop
MicIterated == \E chunk \in MicChunks : MicStep(chunk)

\* C25: in a wake-phrase session every iteration of the mic loop that takes a chunk
\* (the session is running) puts that chunk at the end of the activator's audio
\* queue, where the monitor task scores it, and the session goes on.
C25_WakeChunksReachActivator ==
    [][(actKind = WAKE_WORD /\ running /\ MicIterated)
          => (/\ Len(audio_queue') = Len(audio_queue) + 1
              /\ sessPc' = "live")]_vars

\* C26: every iteration of the mic loop that takes a chunk and completes (the
\* session is running and goes on) runs AudioPreprocessor.process on the chunk,
\* also while forwarding is off or the interrupt flag is set; only an iteration
\* that is forwarding hands the result to send_audio.
C26_EveryChunkConditioned ==
    [][(running /\ MicIterated /\ sessPc' = "live" /\ micPc' = "run")
          => (lastMic'.processed /\ (lastMic'.passed => forwarding'))]_vars

----------------------------------------------------------------------------
(* audio_processing.py: AudioPreprocessor.  A float sample is modelled at a fixed
   resolution: an amplitude is a whole number of units of 0.00001 of full scale
   (1.0 is 100000 units), a gain is in thousandths, a delay register of the
   high-pass filter in tenths of a unit.  A product is rounded toward zero at that
   resolution. *)

\* 198 (and audio_io.py 96): the clip range, 1.0
FULL_SCALE == 100000
\* 81: the initial gain, 1.0
AGC_INITIAL_GAIN == 1000
\* 44, 60: 0.008
NOISE_GATE_THRESHOLD == 800
\* 61: 0.01, in hundredths
NOISE_GATE_ATTENUATION == 1
\* 45, 64: 0.15
AGC_TARGET_RMS == 15000
\* 65: 10.0
AGC_MAX_GAIN == 10000
\* 66: 0.95, in hundredths
AGC_SMOOTHING == 95

\* the variables an AudioPreprocessor does not touch
condOthers == <<actVars, spkVars, unitVars, activation_mode, running, sessPc, micPc, recvPc,
                slashPc, forwarding, vizState, barge_in_streak, interrupted, curReply,
                bargedReplies, cutReplies, lastMic, failure>>

Abs(a) == IF a < 0 THEN -a ELSE a

\* a * num / den, rounded toward zero
Scale(a, num, den) ==
    IF a < 0 THEN -((-a * num) \div den) ELSE (a * num) \div den

\* np.clip(a, -1.0, 1.0)
Clip(a) ==
    IF a > FULL_SCALE THEN FULL_SCALE
    ELSE IF a < -FULL_SCALE THEN -FULL_SCALE ELSE a

\* the largest r in lo..hi with r * r <= n
RECURSIVE IsqrtIn(_, _, _)
IsqrtIn(n, lo, hi) ==
    IF lo >= hi
      THEN lo
      ELSE LET mid == (lo + hi + 1) \div 2
           IN IF mid * mid <= n THEN IsqrtIn(n, mid, hi) ELSE IsqrtIn(n, lo, mid - 1)

\* 175, 190: float(np.sqrt(np.mean(audio**2))), in units
Rms(audio) == IsqrtIn(SumSq(audio) \div Len(audio), 0, 46340)

\* _compute_hpf_coeffs 123-142 for 80 Hz at 16 kHz, in thousandths:
\* (0.98877, -1.97755, 0.98877, -1.97706, 0.97803)
HpfCoeffs == [b0 |-> 989, b1 |-> -1978, b2 |-> 989, a1 |-> -1977, a2 |-> 978]

\* _apply_highpass 155-160: the loop over the samples, from the registers z1, z2
\* (tenths of a unit); out[i] = y is stored at the resolution of the array
RECURSIVE HighpassLoop(_, _, _)
HighpassLoop(audio, z1, z2) ==
    IF audio = << >>
      THEN [out |-> << >>, z1 |-> z1, z2 |-> z2]
      ELSE LET c == HpfCoeffs
               x == Head(audio)
               y == (c.b0 * x) \div 100 + z1
               n1 == (c.b1 * x) \div 100 - (c.a1 * y) \div 1000 + z2
               n2 == (c.b2 * x) \div 100 - (c.a2 * y) \div 1000
               rest == HighpassLoop(Tail(audio), n1, n2)
           IN [rest EXCEPT !.out = <<y \div 10>> \o rest.out]

\* a high-pass stage that starts every call from rest
ApplyHighpassFromRest(audio, z1, z2) == HighpassLoop(audio, 0, 0)

\* _apply_highpass 144-163 with self._hpf_z1 = z1 and self._hpf_z2 = z2: the loop
\* starts from the stored registers; r.z1 and r.z2 are stored back
ApplyHighpass(audio, z1, z2) == HighpassLoop(audio, z1, z2)

\* _apply_highpass called on the next n samples of the signal
HighpassCall(n) ==
    /\ n >= 1
    /\ fed + n <= Len(signal)
    /\ LET r == ApplyHighpass(SubSeq(signal, fed + 1, fed + n), hpf_z1, hpf_z2)
       IN /\ hpf_z1' = r.z1
          /\ hpf_z2' = r.z2
          /\ condOut' = condOut \o r.out
    /\ fed' = fed + n
    /\ UNCHANGED <<agc_gain, enable_spectral, nr_module, nrInstalled, signal, condStart,
                   importTries>>
    /\ UNCHANGED condOthers

\* the longest sample sequence tried
MaxHpfSamples == 3

\* amplitudes of the samples tried: -0.1, 0, 0.003, 0.1
HpfSamples == {-10000, 0, 300, 10000}

\* register values tried at the start: at rest, and in mid-signal
HpfStarts == {<<0, 0>>, <<12340, -5670>>}

RECURSIVE SeqsUpTo(_, _)
SeqsUpTo(S, n) ==
    IF n = 0
      THEN {<< >>}
      ELSE LET shorter == SeqsUpTo(S, n - 1)
           IN shorter \cup {Append(s, x) : s \in shorter, x \in S}

(* SpecHighpass: the high-pass stage of one AudioPreprocessor, called on
   consecutive sub-buffers of a sample sequence, of any lengths *)

InitHighpass ==
    /\ NoActivator
    /\ NoSpeaker
    /\ NoUnits
    /\ activation_mode = actKind
    /\ running = FALSE
    /\ sessPc = "none"
    /\ micPc = "idle"
    /\ recvPc = "idle"
    /\ slashPc = "idle"
    /\ forwarding = FALSE
    /\ vizState = "IDLE"
    /\ barge_in_streak = 0
    /\ interrupted = FALSE
    /\ curReply = 1
    /\ bargedReplies = {}
    /\ cutReplies = {}
    /\ lastMic = NoMic
    /\ failure = "none"
    /\ signal \in SeqsUpTo(HpfSamples, MaxHpfSamples) \ {<< >>}
    /\ condStart \in HpfStarts
    /\ hpf_z1 = condStart[1]
    /\ hpf_z2 = condStart[2]
    /\ agc_gain = AGC_INITIAL_GAIN
    /\ enable_spectral = FALSE
    /\ nr_module = "none"
    /\ nrInstalled = FALSE
    /\ fed = 0
    /\ condOut = << >>
    /\ importTries = 0

NextHighpass == \E n \in 1..MaxHpfSamples : HighpassCall(n)

SpecHighpass == InitHighpass /\ [][NextHighpass]_vars

\* C27: however the samples processed so far were split into consecutive
\* sub-buffers, the outputs of the calls, put together, and the delay registers
\* left by the last call are the outputs and the registers of one call on all
\* those samples from the same initial registers.
C27_FilterContinuity ==
    LET whole == HighpassLoop(SubSeq(signal, 1, fed), condStart[1], condStart[2])
    IN /\ condOut = whole.out
       /\ hpf_z1 = whole.z1
       /\ hpf_z2 = whole.z2

\* three samples processed in three calls of one sample each, from registers that
\* are not at rest, with a loud sample last
C27_Witness ==
    /\ fed = 3
    /\ signal = <<300, -10000, 10000>>
    /\ condStart = <<12340, -5670>>
    /\ Len(condOut) = 3
    /\ hpf_z1 # 0

----------------------------------------------------------------------------
(* The noise gate *)

\* a gate that also closes on a buffer whose RMS is exactly the threshold
GateClosesInclusive(audio) ==
    SumSq(audio) <= NOISE_GATE_THRESHOLD * NOISE_GATE_THRESHOLD * Len(audio)

\* _apply_noise_gate 175-176: rms < NOISE_GATE_THRESHOLD, with
\* rms = sqrt(mean(audio**2)), i.e. mean(audio**2) < threshold squared
GateCloses(audio) ==
    SumSq(audio) < NOISE_GATE_THRESHOLD * NOISE_GATE_THRESHOLD * Len(audio)

\* _apply_noise_gate 167-178
ApplyNoiseGate(audio) ==
    IF GateCloses(audio)
      THEN [i \in 1..Len(audio) |-> Scale(audio[i], NOISE_GATE_ATTENUATION, 100)]
      ELSE audio

\* _apply_noise_gate called on the signal
NoiseGateCall ==
    /\ fed = 0
    /\ fed' = 1
    /\ condOut' = ApplyNoiseGate(signal)
    /\ UNCHANGED <<hpf_z1, hpf_z2, agc_gain, enable_spectral, nr_module, nrInstalled,
                   signal, condStart, importTries>>
    /\ UNCHANGED condOthers

\* the longest buffer given to the gate
MaxGateSamples == 2

\* amplitudes tried: 0, 0.007 and 0.0075 (below the threshold), 0.008 (the
\* threshold), 0.009 (above), 0.2
GateSamples == {0, 700, -700, 750, 800, -800, 900, -900, 20000}

(* SpecGate: the noise gate called once on a buffer *)

InitGate ==
    /\ NoActivator
    /\ NoSpeaker
    /\ NoUnits
    /\ activation_mode = actKind
    /\ running = FALSE
    /\ sessPc = "none"
    /\ micPc = "idle"
    /\ recvPc = "idle"
    /\ slashPc = "idle"
    /\ forwarding = FALSE
    /\ vizState = "IDLE"
    /\ barge_in_streak = 0
    /\ interrupted = FALSE
    /\ curReply = 1
    /\ bargedReplies = {}
    /\ cutReplies = {}
    /\ lastMic = NoMic
    /\ failure = "none"
    /\ signal \in SeqsUpTo(GateSamples, MaxGateSamples) \ {<< >>}
    /\ condStart = <<0, 0>>
    /\ hpf_z1 = 0
    /\ hpf_z2 = 0
    /\ agc_gain = AGC_INITIAL_GAIN
    /\ enable_spectral = FALSE
    /\ nr_module = "none"
    /\ nrInstalled = FALSE
    /\ fed = 0
    /\ condOut = << >>
    /\ importTries = 0

NextGate == NoiseGateCall

SpecGate == InitGate /\ [][NextGate]_vars

\* the RMS of a is below the threshold: mean(a^2) < threshold^2
RmsBelowGateThreshold(a) ==
    SumSq(a) < NOISE_GATE_THRESHOLD * NOISE_GATE_THRESHOLD * Len(a)

----------------------------------------------------------------------------
(* The automatic gain control *)

Min(a, b) == IF a <= b THEN a ELSE b

\* _apply_agc 191: rms > 1e-6, i.e. mean(audio**2) > (0.1 unit)^2, which for a
\* whole number sum(audio**2) is sum(audio**2) > len / 100 rounded down
AgcMeasures(audio) == SumSq(audio) > Len(audio) \div 100

\* AGC_TARGET_RMS / rms, in thousandths (beyond every gain when rms rounds to 0)
TargetGain(audio) ==
    IF Rms(audio) = 0
      THEN 1000 * AGC_TARGET_RMS
      ELSE (1000 * AGC_TARGET_RMS) \div Rms(audio)

\* a desired gain without the cap
DesiredGainUncapped(audio) == TargetGain(audio)

\* _apply_agc 192-193: desired_gain = min(AGC_TARGET_RMS / rms, AGC_MAX_GAIN)
DesiredGain(audio) == Min(TargetGain(audio), AGC_MAX_GAIN)

\* a variant of SmoothGain: the smoothing factor weighs both terms
SmoothGainUnnormalised(gain, desired) ==
    (AGC_SMOOTHING * gain + AGC_SMOOTHING * desired) \div 100

\* _apply_agc 194-197: the moving average of the gain
SmoothGain(gain, desired) ==
    (AGC_SMOOTHING * gain + (100 - AGC_SMOOTHING) * desired) \div 100

\* _apply_agc 182-198 with self._agc_gain = gain: the new gain and the output
ApplyAgc(audio, gain) ==
    LET g == IF AgcMeasures(audio) THEN SmoothGain(gain, DesiredGain(audio)) ELSE gain
    IN [gain |-> g,
        out |-> [i \in 1..Len(audio) |-> Clip(Scale(audio[i], g, 1000))]]

\* the number of calls of _apply_agc tried
MaxAgcCalls == 135

\* _apply_agc called on the signal once more
AgcCall ==
    /\ fed < MaxAgcCalls
    /\ fed' = fed + 1
    /\ LET r == ApplyAgc(signal, agc_gain)
       IN /\ agc_gain' = r.gain
          /\ condOut' = r.out
    /\ UNCHANGED <<hpf_z1, hpf_z2, enable_spectral, nr_module, nrInstalled, signal,
                   condStart, importTries>>
    /\ UNCHANGED condOthers

\* buffers of constant RMS fed again and again: RMS 0 (silence), 0.01, 0.05, 0.15,
\* 0.3 and 0.4
AgcSignals == {<<0, 0>>, <<1000>>, <<5000, -5000>>, <<15000, -15000>>, <<30000>>,
               <<40000>>}

\* gains tried at the start: 1.0 (a new preprocessor), 3.5 and 20.0
AgcGains == {1000, 3500, 20000}

(* SpecAgc: the gain control called again and again on one buffer *)

InitAgc ==
    /\ NoActivator
    /\ NoSpeaker
    /\ NoUnits
    /\ activation_mode = actKind
    /\ running = FALSE
    /\ sessPc = "none"
    /\ micPc = "idle"
    /\ recvPc = "idle"
    /\ slashPc = "idle"
    /\ forwarding = FALSE
    /\ vizState = "IDLE"
    /\ barge_in_streak = 0
    /\ interrupted = FALSE
    /\ curReply = 1
    /\ bargedReplies = {}
    /\ cutReplies = {}
    /\ lastMic = NoMic
    /\ failure = "none"
    /\ signal \in AgcSignals
    /\ condStart = <<0, 0>>
    /\ hpf_z1 = 0
    /\ hpf_z2 = 0
    /\ agc_gain \in AgcGains
    /\ enable_spectral = FALSE
    /\ nr_module = "none"
    /\ nrInstalled = FALSE
    /\ fed = 0
    /\ condOut = << >>
    /\ importTries = 0

NextAgc == AgcCall

SpecAgc == InitAgc /\ [][NextAgc]_vars

\* the number of buffers after which the gain is looked at
AgcSettleCalls == 130

\* the distance allowed then, 0.05
AgcEps == 50

\* every sample of the output is within [-1, 1]
OutputInRange == \A i \in 1..Len(condOut) : Abs(condOut[i]) <= FULL_SCALE

\* C29 as stated: after AgcSettleCalls buffers of a constant RMS (above the 1e-6
\* below which the gain control does nothing) the gain is within AgcEps of
\* AGC_TARGET_RMS divided by that RMS, and every output is within [-1, 1].
C29_GainReachesTargetRatio ==
    /\ OutputInRange
    /\ (fed >= AgcSettleCalls /\ AgcMeasures(signal))
          => Abs(agc_gain - TargetGain(signal)) <= AgcEps

\* C29 amended: after AgcSettleCalls buffers of a constant RMS above 1e-6 the gain
\* is within AgcEps of the smaller of AGC_TARGET_RMS divided by that RMS and
\* AGC_MAX_GAIN, and every output of every call is within [-1, 1], whatever the
\* gain was.
C29_GainReachesCappedRatio ==
    /\ OutputInRange
    /\ (fed >= AgcSettleCalls /\ AgcMeasures(signal))
          => Abs(agc_gain - Min(TargetGain(signal), AGC_MAX_GAIN)) <= AgcEps

\* a signal of RMS 0.01, for which the target ratio 15 is above the cap: after
\* AgcSettleCalls buffers the gain is at the cap 10 and the output at 0.1
C29_Witness ==
    /\ fed = AgcSettleCalls
    /\ signal = <<1000>>
    /\ Abs(agc_gain - AGC_MAX_GAIN) <= AgcEps
    /\ Abs(condOut[1] - 10000) <= AgcEps

----------------------------------------------------------------------------
(* The spectral denoise stage and process() *)

\* audio_io.py pcm_bytes_to_np 88-91: int16 / 32768.0, in units
PcmBytesToNp(chunk) == [i \in 1..Len(chunk) |-> Scale(chunk[i], 3125, 1024)]

\* astype(np.int16) of a * 32767, a in [-1, 1]: a * 32767 / 100000 rounded toward
\* zero, computed in two steps (100000 = 3125 * 32) to stay within 32 bits
ToInt16(a) ==
    LET m == Abs(a)
        x == (m \div 3125) * 32767 + ((m % 3125) * 32767) \div 3125
    IN IF a < 0 THEN -(x \div 32) ELSE x \div 32

\* audio_io.py np_to_pcm_bytes 94-97
NpToPcmBytes(audio) == [i \in 1..Len(audio) |-> ToInt16(Clip(audio[i]))]

\* _apply_spectral_denoise 224-229: noisereduce.reduce_noise is outside the
\* repository; it is given an output that differs from its input where the input
\* is not silent (a quarter of it, for prop_decrease = 0.75)
ReduceNoise(audio) == [i \in 1..Len(audio) |-> Scale(audio[i], 25, 100)]

\* an import failure that is not caught
OnImportErrorPropagates(audio, enable) ==
    [out |-> << >>, enable |-> enable, raised |-> "ImportError"]

\* _apply_spectral_denoise 216-222: the except clause
OnImportError(audio, enable) ==
    [out |-> audio, enable |-> FALSE, raised |-> "none"]

\* _apply_spectral_denoise 202-229 with self._nr_module = module and
\* self._enable_spectral = enable, when noisereduce is installed or not
ApplySpectralDenoise(audio, module, enable, installed) ==
    IF module = "none" /\ ~installed
      THEN LET r == OnImportError(audio, enable)
           IN [out |-> r.out, module |-> "none", enable |-> r.enable,
               raised |-> r.raised, tried |-> 1]
      ELSE [out |-> ReduceNoise(audio), module |-> "noisereduce", enable |-> enable,
            raised |-> "none", tried |-> IF module = "none" THEN 1 ELSE 0]

\* process 111-114: the three stages that always run
ThreeStages(chunk, z1, z2, gain) ==
    LET h == ApplyHighpass(PcmBytesToNp(chunk), z1, z2)
        a == ApplyAgc(ApplyNoiseGate(h.out), gain)
    IN [out |-> a.out, z1 |-> h.z1, z2 |-> h.z2, gain |-> a.gain]

\* the number of calls of process tried
MaxProcessCalls == 3

\* process 97-119 called on one chunk
Process(chunk) ==
    /\ fed < MaxProcessCalls
    /\ failure = "none"
    /\ fed' = fed + 1
    /\ signal' = chunk
    /\ IF Len(chunk) < 1
         THEN \* 106-107: fewer than two bytes
              /\ condOut' = chunk
              /\ UNCHANGED <<hpf_z1, hpf_z2, agc_gain, enable_spectral, nr_module,
                             importTries, failure>>
         ELSE LET s == ThreeStages(chunk, hpf_z1, hpf_z2, agc_gain)
                  d == IF enable_spectral
                         THEN ApplySpectralDenoise(s.out, nr_module, enable_spectral,
                                                   nrInstalled)
                         ELSE [out |-> s.out, module |-> nr_module,
                               enable |-> enable_spectral, raised |-> "none",
                               tried |-> 0]
              IN /\ hpf_z1' = s.z1
                 /\ hpf_z2' = s.z2
                 /\ agc_gain' = s.gain
                 /\ nr_module' = d.module
                 /\ enable_spectral' = d.enable
                 /\ importTries' = importTries + d.tried
                 /\ failure' = d.raised
                 /\ condOut' = IF d.raised = "none" THEN NpToPcmBytes(d.out) ELSE condOut
    /\ UNCHANGED <<nrInstalled, condStart>>
    /\ UNCHANGED <<actVars, spkVars, unitVars, activation_mode, running, sessPc, micPc,
                   recvPc, slashPc, forwarding, vizState, barge_in_streak, interrupted,
                   curReply, bargedReplies, cutReplies, lastMic>>

\* PCM chunks tried (int16 samples): an empty one, 0.1 of full scale, a quiet one
\* that the gate closes on, and a two-sample one
ProcessChunks == {<< >>, <<3277>>, <<200, -200>>, <<6554, -3277>>}

(* SpecProcess: one AudioPreprocessor, built with the spectral stage on or off, on
   a machine with or without noisereduce, given chunks through process() *)

InitProcess ==
    /\ NoActivator
    /\ NoSpeaker
    /\ NoUnits
    /\ activation_mode = actKind
    /\ running = FALSE
    /\ sessPc = "none"
    /\ micPc = "idle"
    /\ recvPc = "idle"
    /\ slashPc = "idle"
    /\ forwarding = FALSE
    /\ vizState = "IDLE"
    /\ barge_in_streak = 0
    /\ interrupted = FALSE
    /\ curReply = 1
    /\ bargedReplies = {}
    /\ cutReplies = {}
    /\ lastMic = NoMic
    /\ failure = "none"
    /\ signal = << >>
    /\ condStart = <<0, 0>>
    /\ hpf_z1 = 0
    /\ hpf_z2 = 0
    /\ agc_gain = AGC_INITIAL_GAIN
    /\ enable_spectral \in BOOLEAN
    /\ nr_module = "none"
    /\ nrInstalled \in BOOLEAN
    /\ fed = 0
    /\ condOut = << >>
    /\ importTries = 0

NextProcess == \E chunk \in ProcessChunks : Process(chunk)

SpecProcess == InitProcess /\ [][NextProcess]_vars

\* C30: a call of process() on a machine without noisereduce returns without
\* raising; the one that finds the spectral stage on returns what the three other
\* stages made of the chunk (the stage returned its input unchanged) and leaves the
\* stage off, so that the import is tried at most once in the life of the
\* preprocessor.
C30_DenoiseFallback ==
    [][~nrInstalled =>
          /\ failure' = "none"
          /\ importTries' <= 1
          /\ (enable_spectral /\ signal' # << >>) =>
                /\ condOut' = NpToPcmBytes(ThreeStages(signal', hpf_z1, hpf_z2,
                                                       agc_gain).out)
                /\ ~enable_spectral'
                /\ nr_module' = "none"
                /\ importTries' = 1]_vars

\* three chunks went through a preprocessor whose backend is missing: the import
\* was tried once, the stage is off, the last chunk came back conditioned
C30_Witness ==
    /\ ~nrInstalled
    /\ fed = 3
    /\ importTries = 1
    /\ ~enable_spectral
    /\ signal = <<6554, -3277>>
    /\ condOut # << >>
    /\ failure = "none"

----------------------------------------------------------------------------
(* Properties of the scorer calls of the wake-phrase monitor *)

\* C31: on each wake detection the scorer's reset() is called exactly once, before
\* LISTENING_START is emitted; an iteration that detects nothing does not reset; the
\* scorer's predict() is called for no buffer processed during an active turn and
\* for every buffer processed while waiting.
C31_ScorerResetAndConsulted ==
    lastOp.op = "monitor" =>
        LET calls == lastOp.calls
        IN /\ lastOp.pre => Count(calls, "predict") = 1
           /\ ~lastOp.pre => (Count(calls, "predict") = 0 /\ Count(calls, "reset") = 0)
           /\ LastEmitted = <<LISTENING_START>> =>
                 /\ Count(calls, "reset") = 1
                 /\ \A j \in 1..Len(calls) :
                       calls[j] = "emit" => \E i \in 1..(j - 1) : calls[i] = "reset"
           /\ LastEmitted # <<LISTENING_START>> => Count(calls, "reset") = 0

\* a second detection, after a turn that silence ended: the scorer was consulted,
\* reset, and the event emitted
C31_Witness ==
    /\ MonitoredWaiting
    /\ emittedLog = <<LISTENING_START, LISTENING_END, LISTENING_START>>
    /\ lastOp.calls = <<"predict", "reset", "emit">>

\* the events at the odd places of a log are LISTENING_START, the others LISTENING_END
Alternates(log) ==
    \A i \in 1..Len(log) : log[i] = (IF i % 2 = 1 THEN LISTENING_START ELSE LISTENING_END)

\* C32: the events a WakeWordActivator emits alternate LISTENING_START,
\* LISTENING_END, LISTENING_START, ..., starting with LISTENING_START; after each
\* LISTENING_END the activator is waiting again, and the next buffer it processes
\* with a score at or above the threshold starts a new turn.
C32_WakeCycleAlternates ==
    [][actKind = WAKE_WORD =>
          /\ Alternates(emittedLog')
          /\ (emittedLog' # << >> /\ Last(emittedLog') = LISTENING_END)
                => (listening_for_wake' /\ ~active_turn')
          /\ (/\ emittedLog # << >>
              /\ Last(emittedLog) = LISTENING_END
              /\ audio_queue # << >>
              /\ audio_queue' = Tail(audio_queue)
              /\ lastOp'.op = "monitor"
              /\ lastOp'.score >= WAKE_THRESHOLD)
                => emittedLog' = Append(emittedLog, LISTENING_START)]_vars

\* after a turn that silence ended, a qualifying score started the second turn
C32_Witness ==
    /\ actKind = WAKE_WORD
    /\ emittedLog = <<LISTENING_START, LISTENING_END, LISTENING_START>>
    /\ lastOp.op = "monitor"
    /\ lastOp.score = 9
    /\ active_turn

----------------------------------------------------------------------------
(* Properties of the mic loop's end-of-turn and barge-in steps *)

\* C33: end_turn() is sent to the remote exactly once for each LISTENING_END event
\* the mic loop handles, and never in an iteration made while the session's mode is
\* VAD (continuous detection).
C33_EndTurnPerListeningEnd ==
    [][(running /\ actKind # WAKE_WORD /\ MicIterated) =>
          /\ handledLog' = handledLog \o MicDrain.handled
          /\ MicDrain.endTurns = Count(MicDrain.handled, LISTENING_END)
          /\ activation_mode = VAD => MicDrain.endTurns = 0]_vars

----------------------------------------------------------------------------
(* Properties of WakeWordActivator.stop *)

\* C34: after WakeWordActivator.stop() has returned the monitor task has finished:
\* it takes no buffer from the queue and no further event is emitted, even if audio
\* is pushed afterwards; stop() on an activator that was never started changes
\* nothing.
C34_StopEndsMonitor ==
    [][actKind = WAKE_WORD =>
          /\ actPc = "stopped" =>
                /\ emittedLog' = emittedLog
                /\ events' = events \/ (events # << >> /\ events' = Tail(events))
                /\ IsPrefix(audio_queue, audio_queue')
                /\ <<listening_for_wake, active_turn, silence_streak>>'
                      = <<listening_for_wake, active_turn, silence_streak>>
                /\ actPc' = "stopped"
          /\ (actPc = "built" /\ lastOp'.op = "stop") =>
                /\ actPc' = "built"
                /\ <<events, loopReady, emittedLog, audio_queue, listening_for_wake,
                     active_turn, silence_streak>>'
                      = <<events, loopReady, emittedLog, audio_queue,
                          listening_for_wake, active_turn, silence_streak>>]_vars

\* a buffer was pushed to a stopped activator that was waiting for the wake phrase:
\* it stays in the queue
C34_Witness ==
    /\ actKind = WAKE_WORD
    /\ actPc = "stopped"
    /\ lastOp.op = "push"
    /\ listening_for_wake
    /\ Len(audio_queue) = 2

----------------------------------------------------------------------------
(* Properties of the close of SpeakerPlayback *)

\* C35: closing SpeakerPlayback always terminates: once __aexit__ has put the
\* shutdown sentinel on the queue, the drain loop has either ended or still has the
\* sentinel ahead of it, whatever clear() and play() calls are made during the
\* close (so that the loop ends after finitely many of its iterations).
C35_CloseTerminates ==
    spkPc = "closing" =>
        \/ drainPc = "done"
        \/ \E i \in 1..Len(spkQ) : spkQ[i] = NoneChunk

----------------------------------------------------------------------------
(* Properties of the interrupt flag *)

\* the receive loop handles the final part of the current reply in this step
FinalHandled == recvPc = "run" /\ running /\ curReply' = curReply + 1

\* C36: in every activation mode, when the receive loop has handled the final part
\* of a reply the state is LISTENING and the interrupt flag is clear, so that
\* send_audio transmits the buffers forwarded from then on.
C36_FlagClearAfterFinal ==
    [][FinalHandled => (vizState' = LISTENING /\ Transmits(interrupted'))]_vars

\* C37: the barge-in check calls interrupt() only when the BARGE_IN_FRAMES_REQUIRED
\* frames captured last, this one included, were in a row each louder than
\* BARGE_IN_RMS_THRESHOLD while the state was SPEAKING; the counter the loop keeps is
\* that run: a quiet frame, or a frame captured while the state is not SPEAKING, sets
\* it to 0, and so does a trigger.
C37_BargeInNeedsRunOfLoudFrames ==
    [][\A chunk \in MicChunks :
          (running /\ actKind # WAKE_WORD /\ MicStepCounted(chunk) /\ micPc' = "run") =>
              /\ MicBargeIn(chunk).fired =>
                    /\ RmsAboveBargeInThreshold(chunk)
                    /\ MicDrain.viz = SPEAKING
                    /\ lastMic.run + 1 >= BARGE_IN_FRAMES_REQUIRED
              /\ barge_in_streak' = lastMic'.run
              /\ MicBargeIn(chunk).fired => barge_in_streak' = 0]_vars

\* the receive loop handles an audio part or the final part of a reply in this step
AudioOrFinalHandled ==
    /\ running
    /\ RecvPart("audio") \/ RecvPart("final")

\* C38: in continuous-detection mode, once the barge-in check has set the interrupt
\* flag, the next audio part or final part the receive loop handles clears it, so
\* that the flag is not left set for good and send_audio transmits again.
C38_FlagClearedByNextPart ==
    [][(activation_mode = VAD /\ interrupted /\ AudioOrFinalHandled)
          => Transmits(interrupted')]_vars

\* a VAD session after a barge-in: the audio part that followed cleared the flag
C38_Witness ==
    /\ actKind = VAD
    /\ activation_mode = VAD
    /\ bargedReplies = {1}
    /\ ~interrupted
    /\ vizState = LISTENING
    /\ forwarding

----------------------------------------------------------------------------
(* Properties of the counters *)

\* C39: between two buffers the monitor loop processes, the silence streak of a
\* WakeWordActivator is in 0 .. SILENCE_FRAMES_TO_END - 1, and it is 0 whenever the
\* activator is waiting for the wake phrase.
C39_SilenceStreakRange ==
    actKind = WAKE_WORD =>
        /\ silence_streak \in 0..(SILENCE_FRAMES_TO_END - 1)
        /\ listening_for_wake => silence_streak = 0

\* the streak at its largest value: fourteen quiet buffers in a row in a turn
C39_Witness ==
    /\ actKind = WAKE_WORD
    /\ active_turn
    /\ silence_streak = SILENCE_FRAMES_TO_END - 1
    /\ lastOp.op = "monitor"

----------------------------------------------------------------------------
(* SpecAgcFeed: the gain control of a new preprocessor called on one buffer after
   another.  The calls are not counted: the gains are finitely many, so the runs
   cover sequences of buffers of every length. *)

\* _apply_agc called on the buffer audio
AgcFeed(audio) ==
    /\ signal' = audio
    /\ LET r == ApplyAgc(audio, agc_gain)
       IN /\ agc_gain' = r.gain
          /\ condOut' = r.out
    /\ UNCHANGED <<hpf_z1, hpf_z2, enable_spectral, nr_module, nrInstalled, fed,
                   condStart, importTries>>
    /\ UNCHANGED condOthers

InitAgcFeed ==
    /\ NoActivator
    /\ NoSpeaker
    /\ NoUnits
    /\ activation_mode = actKind
    /\ running = FALSE
    /\ sessPc = "none"
    /\ micPc = "idle"
    /\ recvPc = "idle"
    /\ slashPc = "idle"
    /\ forwarding = FALSE
    /\ vizState = "IDLE"
    /\ barge_in_streak = 0
    /\ interrupted = FALSE
    /\ curReply = 1
    /\ bargedReplies = {}
    /\ cutReplies = {}
    /\ lastMic = NoMic
    /\ failure = "none"
    /\ NoConditioner

\* the buffers fed: silence, RMS 0.01 (ratio 15, above the cap) and RMS 0.4 (ratio
\* 0.375)
AgcFeedSignals == {<<0, 0>>, <<1000>>, <<40000>>}

NextAgcFeed == \E audio \in AgcFeedSignals : AgcFeed(audio)

SpecAgcFeed == InitAgcFeed /\ [][NextAgcFeed]_vars

\* C40: starting from 1.0 the gain stays above 0 and at most AGC_MAX_GAIN after any
\* sequence of buffers: a buffer with RMS above 1e-6 moves it to a value between the
\* previous gain and the desired gain, which is at most AGC_MAX_GAIN, and a buffer
\* with RMS at or below 1e-6 leaves it unchanged.
C40_GainStaysInRange ==
    [][/\ agc_gain' > 0
       /\ agc_gain' <= AGC_MAX_GAIN
       /\ AgcMeasures(signal') =>
             /\ DesiredGain(signal') <= AGC_MAX_GAIN
             /\ Min(agc_gain, DesiredGain(signal')) <= agc_gain'
             /\ agc_gain' <= IF agc_gain <= DesiredGain(signal')
                               THEN DesiredGain(signal') ELSE agc_gain
       /\ ~AgcMeasures(signal') => agc_gain' = agc_gain]_vars

\* silence processed by a preprocessor whose gain quiet buffers had driven close to
\* the cap: the gain is as it was
C40_Witness ==
    /\ signal = <<0, 0>>
    /\ condOut = <<0, 0>>
    /\ agc_gain > AGC_MAX_GAIN - AgcEps
    /\ agc_gain <= AGC_MAX_GAIN

====
